---- MODULE Spec2Model ----
(***************************************************************************)
(* A model of the cleaning core of MultinationalRetailDataCentralisation:  *)
(* the weight-string parser, the weight-class categorizer, the UUID        *)
(* validator, the shared row-cleaning helper and the dataset cleaners of   *)
(* src/src/data_cleaning.py, together with the earlier clean_user_data of  *)
(* src/data_cleaning.py that src/main.py still runs.                       *)
(*                                                                         *)
(* Text is a sequence of one-character strings.  A cell of a table is a    *)
(* tagged value with one fixed record shape, so that any two cells can be  *)
(* compared: t is the tag, s the text or date payload, m / 10^e the number.*)
(***************************************************************************)
EXTENDS Integers, Sequences, FiniteSets, TLC

VARIABLES
    weight_str,     \* argument of convert_to_kg
    weight_ret,     \* what convert_to_kg returned for it
    weight_kg,      \* value stored in the weight_kg column for that cell
    weight_class,   \* value np.select stores in weight_class for that cell
    uuid_to_test,   \* argument of is_valid_uuid
    uuid_ret,       \* what is_valid_uuid returned, or the exception it raised
    script,         \* the script that runs: which cleaner is called
    df_extracted,   \* the table (or the rows of the csv file) the cleaner is given
    df_cleaned,     \* the outcome of the cleaner call
    df_again,       \* the outcome of calling the cleaner again on the same table
    index_arg,      \* the index argument of _clean_dataframe ("" for None)
    once,           \* the table after one call of _clean_dataframe
    twice,          \* the table after a second call
    package,        \* "src" or "src/src": whose extractor and connector are called
    db_connector,   \* the object passed to read_rds_table as db_connector
    table_name,     \* the table_name argument of read_rds_table or upload_to_db
    available_tables, \* what list_db_tables returns for the source database
    df_uploaded,    \* the object passed to upload_to_db as df
    primary_key,    \* the primary_key argument of upload_to_db ("" for None)
    db_failure,     \* the step of the upload at which the database fails ("" for none)
    used,           \* the uses made of the connector and the databases, in order
    exception,      \* the exception that left the call or the script ("" for none)
    destination,    \* the rows of the destination table
    stdout,         \* the lines printed
    number_of_stores, \* argument of retrieve_stores_data
    store_number,   \* its loop variable
    all_stores,     \* the responses it has collected
    requested,      \* the store numbers it has requested, in order
    logged,         \* the store numbers it has logged an error for
    pc              \* position of the script under consideration

weight_vars == <<weight_str, weight_ret, weight_kg, weight_class>>
uuid_vars   == <<uuid_to_test, uuid_ret>>
frame_vars  == <<script, df_extracted, df_cleaned, df_again>>
clean_vars  == <<index_arg, once, twice>>
io_vars     == <<package, db_connector, table_name, available_tables, df_uploaded,
                 primary_key, db_failure, used, exception, destination, stdout>>
stores_vars == <<number_of_stores, store_number, all_stores, requested, logged>>

vars == <<weight_vars, uuid_vars, frame_vars, clean_vars, io_vars, stores_vars, pc>>

-----------------------------------------------------------------------------
(* Cells *)

Str(s)      == [t |-> "str",   s |-> s,    m |-> 0, e |-> 0]
NaN         == [t |-> "nan",   s |-> <<>>, m |-> 0, e |-> 0]
PyNone      == [t |-> "None",  s |-> <<>>, m |-> 0, e |-> 0]
Bool(b)     == [t |-> "bool",  s |-> <<>>, m |-> IF b THEN 1 ELSE 0, e |-> 0]
Date(s)     == [t |-> "date",  s |-> s,    m |-> 0, e |-> 0]
Raise(x)    == [t |-> "raise", s |-> <<x>>, m |-> 0, e |-> 0]

\* pd.isna / the cells dropna treats as missing: NaN, None and NaT
isna(c)     == c.t \in {"nan", "None"}

Min(S)      == CHOOSE x \in S : \A y \in S : x <= y

RECURSIVE Pow10(_)
Pow10(n)    == IF n = 0 THEN 1 ELSE 10 * Pow10(n - 1)

\* a number is m / 10^e, kept with no trailing zero in the fraction
RECURSIVE Float(_, _)
Float(m, e) == IF e > 0 /\ m % 10 = 0 THEN Float(m \div 10, e - 1)
               ELSE [t |-> "float", s |-> <<>>, m |-> m, e |-> e]

\* a < b on numbers
Less(a, b)  == a.m * Pow10(b.e) < b.m * Pow10(a.e)

-----------------------------------------------------------------------------
(* Text *)

Digits   == {"0", "1", "2", "3", "4", "5", "6", "7", "8", "9"}
DigitSeq == <<"0", "1", "2", "3", "4", "5", "6", "7", "8", "9">>
DigitVal(c) == (CHOOSE i \in 1..10 : DigitSeq[i] = c) - 1

\* needle in haystack
str_contains(hay, needle) ==
    \E i \in 1..(Len(hay) + 1) :
        /\ i + Len(needle) - 1 <= Len(hay)
        /\ SubSeq(hay, i, i + Len(needle) - 1) = needle

\* str.split(c) for a one-character separator
RECURSIVE str_split(_, _)
str_split(s, c) ==
    LET at == {i \in 1..Len(s) : s[i] = c}
    IN  IF at = {} THEN <<s>>
        ELSE <<SubSeq(s, 1, Min(at) - 1)>>
                 \o str_split(SubSeq(s, Min(at) + 1, Len(s)), c)

\* last index of the run of digits that starts at i
DigitRunEnd(s, i) ==
    LET stops == {k \in i..Len(s) : s[k] \notin Digits}
    IN  IF stops = {} THEN Len(s) ELSE Min(stops) - 1

\* re.findall(r"(\d+(\.\d+)?)", s): the first group of every match, in order
RECURSIVE re_findall_number(_)
re_findall_number(s) ==
    LET starts == {i \in 1..Len(s) : s[i] \in Digits}
    IN  IF starts = {} THEN <<>>
        ELSE LET i == Min(starts)
                 j == DigitRunEnd(s, i)
                 k == IF j + 2 <= Len(s) /\ s[j + 1] = "." /\ s[j + 2] \in Digits
                      THEN DigitRunEnd(s, j + 2) ELSE j
             IN  <<SubSeq(s, i, k)>> \o re_findall_number(SubSeq(s, k + 1, Len(s)))

\* the integer written by a run of digits
RECURSIVE int_of_digits(_)
int_of_digits(s) ==
    IF s = <<>> THEN 0
    ELSE 10 * int_of_digits(SubSeq(s, 1, Len(s) - 1)) + DigitVal(s[Len(s)])

\* float(text) for a text matched by \d+(\.\d+)?
float_of(s) ==
    LET dots == {i \in 1..Len(s) : s[i] = "."}
    IN  IF dots = {} THEN Float(int_of_digits(s), 0)
        ELSE LET d == Min(dots)
             IN  Float(int_of_digits(SubSeq(s, 1, d - 1) \o SubSeq(s, d + 1, Len(s))),
                       Len(s) - d)

Mul(a, b)     == Float(a.m * b.m, a.e + b.e)
DivThousand(a) == Float(a.m, a.e + 3)

-----------------------------------------------------------------------------
(* convert_product_weights / convert_to_kg *)

\* the exceptions the try block of convert_to_kg catches
except_caught_only_value == {"ValueError"}
except_caught == {"IndexError", "ValueError"}

\* "g" in weight_str or "ml" in weight_str
unit_divides(w) == str_contains(w, <<"g">>) \/ str_contains(w, <<"m", "l">>)

\* float(re.findall(..., part)[0][0])
first_number(part) ==
    LET found == re_findall_number(part)
    IN  IF found = <<>> THEN Raise("IndexError") ELSE float_of(found[1])

\* the body of the try block: quantity * unit_weight over parts[0], parts[1]
multiplied(w) ==
    LET parts       == str_split(w, "x")
        quantity    == first_number(parts[1])
        unit_weight == first_number(parts[2])
    IN  IF quantity.t = "raise" THEN quantity
        ELSE IF unit_weight.t = "raise" THEN unit_weight
        ELSE Mul(quantity, unit_weight)

convert_to_kg(weight) ==
    IF weight.t # "str" \/ isna(weight) THEN PyNone
    ELSE LET w == weight.s
             total_weight ==
                 IF str_contains(w, <<"x">>)
                 THEN LET body == multiplied(w)
                      IN  IF body.t = "raise" /\ body.s[1] \in except_caught
                          THEN PyNone ELSE body
                 ELSE LET numeric_match == re_findall_number(w)
                      IN  IF numeric_match # <<>> THEN float_of(numeric_match[1])
                          ELSE PyNone
         IN  IF total_weight.t # "float" THEN total_weight
             ELSE IF unit_divides(w) THEN DivThousand(total_weight)
             ELSE total_weight

\* Series.round(5), ties to even
round5(a) ==
    IF a.t # "float" \/ a.e <= 5 THEN a
    ELSE LET unit == Pow10(a.e - 5)
             q    == a.m \div unit
             r    == a.m % unit
             up   == 2 * r > unit \/ (2 * r = unit /\ q % 2 = 1)
         IN  Float(IF up THEN q + 1 ELSE q, 5)

\* pd.to_numeric(errors="coerce") on one cell: text made of one number parses
to_numeric(c) ==
    IF c.t = "float" THEN c
    ELSE IF c.t = "str" /\ re_findall_number(c.s) = <<c.s>> THEN float_of(c.s)
    ELSE NaN

\* the weight_kg cell convert_product_weights stores for a weight cell
weight_kg_cell(weight) == round5(to_numeric(convert_to_kg(weight)))

-----------------------------------------------------------------------------
(* the weight_class column of clean_products_data *)

between_left_both(w, lo, hi) ==
    w.t = "float" /\ ~Less(w, Float(lo, 0)) /\ ~Less(Float(hi, 0), w)
\* Series.between(lo, hi, inclusive="left")
between_left(w, lo, hi) ==
    w.t = "float" /\ ~Less(w, Float(lo, 0)) /\ Less(w, Float(hi, 0))

\* np.select: the choice of the first condition that holds, else the default
np_select(conditions, choices, default) ==
    LET hold == {i \in 1..Len(conditions) : conditions[i]}
    IN  IF hold = {} THEN default ELSE choices[Min(hold)]

T_Light          == <<"L", "i", "g", "h", "t">>
T_Mid_Sized      == <<"M", "i", "d", "_", "S", "i", "z", "e", "d">>
T_Heavy          == <<"H", "e", "a", "v", "y">>
T_Truck_Required == <<"T", "r", "u", "c", "k", "_", "R", "e", "q", "u", "i", "r", "e", "d">>
T_Unknown        == <<"U", "n", "k", "n", "o", "w", "n">>

weight_class_of(w) ==
    np_select(<< w.t = "float" /\ Less(w, Float(2, 0)),
                 between_left(w, 2, 40),
                 between_left(w, 40, 140),
                 w.t = "float" /\ ~Less(w, Float(140, 0)) >>,
              <<T_Light, T_Mid_Sized, T_Heavy, T_Truck_Required>>,
              T_Unknown)

-----------------------------------------------------------------------------
(* Weight cells the parser is applied to *)

WeightPrefixes == { <<>>, <<"2", " ", "x", " ">>, <<"3", " ", "x", " ">>, <<"x", " ">>, <<"2", " ", "x", " ", "3", " ", "x", " ">>, <<"b", "o", "x", " ">> }
WeightNumbers  == { <<>>, <<"1", ".", "9">>, <<"2">>, <<"3", "9", ".", "9", "9", "9">>, <<"4", "0">>, <<"1", "3", "9", ".", "9", "9", "9">>, <<"1", "4", "0">>, <<"0", ".", "5">> }
WeightUnits    == { <<>>, <<"g">>, <<"m", "l">>, <<"k", "g">>, <<"o", "z">>, <<" ", "x">> }

T_5x145g   == <<"5", " ", "x", " ", "1", "4", "5", "g">>
T_250ml    == <<"2", "5", "0", "m", "l">>
T_3kg      == <<"3", "k", "g">>
T_5x1kg    == <<"5", " ", "x", " ", "1", "k", "g">>
T_assorted == <<"a", "s", "s", "o", "r", "t", "e", "d">>

WeightCells ==
    {Str(p \o n \o u) : p \in WeightPrefixes, n \in WeightNumbers, u \in WeightUnits}
        \cup {Str(T_5x145g), Str(T_250ml), Str(T_3kg), Str(T_5x1kg), Str(T_assorted)}
        \cup {NaN, PyNone, Float(77, 1), Bool(TRUE), Date(<<"2", "0", "0", "1">>)}

-----------------------------------------------------------------------------
(* The weight parser and the categorizer applied to one cell *)

NoFrame == [columns |-> {}, index |-> <<>>, rows |-> <<>>]
NoOutcome == [exc |-> "", arg |-> NoFrame, ret |-> NoFrame]

\* the variables of the parts a specification does not exercise
WeightIdle == weight_str = NaN /\ weight_ret = PyNone /\ weight_kg = NaN /\ weight_class = <<>>
UuidIdle   == uuid_to_test = NaN /\ uuid_ret = PyNone
FrameIdle  == script = "" /\ df_extracted = NoFrame /\ df_cleaned = NoOutcome /\ df_again = NoOutcome
CleanIdle  == index_arg = "" /\ once = NoFrame /\ twice = NoFrame
IoIdle     ==
    /\ package = "" /\ db_connector = "" /\ table_name = "" /\ available_tables = {}
    /\ df_uploaded = NoFrame /\ primary_key = "" /\ db_failure = ""
    /\ used = <<>> /\ exception = "" /\ destination = <<>> /\ stdout = <<>>
StoresIdle ==
    /\ number_of_stores = 0 /\ store_number = 0 /\ all_stores = <<>>
    /\ requested = <<>> /\ logged = <<>>

InitWeight ==
    /\ pc = "start"
    /\ weight_str \in WeightCells
    /\ weight_ret = PyNone
    /\ weight_kg = NaN
    /\ weight_class = <<>>
    /\ UuidIdle /\ FrameIdle /\ CleanIdle /\ IoIdle /\ StoresIdle

\* df["weight_kg"] = df["weight"].apply(convert_to_kg), to_numeric, round(5)
ConvertWeight ==
    /\ pc = "start"
    /\ weight_ret' = convert_to_kg(weight_str)
    /\ weight_kg' = weight_kg_cell(weight_str)
    /\ pc' = "converted"
    /\ UNCHANGED <<weight_str, weight_class, uuid_vars, frame_vars, clean_vars, io_vars, stores_vars>>

\* df["weight_class"] = np.select(conditions, choices, default="Unknown")
Categorize ==
    /\ pc = "converted"
    /\ weight_class' = weight_class_of(weight_kg)
    /\ pc' = "classified"
    /\ UNCHANGED <<weight_str, weight_ret, weight_kg, uuid_vars, frame_vars, clean_vars, io_vars, stores_vars>>

NextWeight == ConvertWeight \/ Categorize

SpecWeight == InitWeight /\ [][NextWeight]_vars

-----------------------------------------------------------------------------
(* Properties of the weight parser *)

EndsWith(w, suffix) ==
    Len(w) >= Len(suffix) /\ SubSeq(w, Len(w) - Len(suffix) + 1, Len(w)) = suffix
HasMarker(w)  == \E i \in 1..Len(w) : w[i] = "x"
HasNumber(w)  == \E i \in 1..Len(w) : w[i] \in Digits
FirstMarker(w) == Min({i \in 1..Len(w) : w[i] = "x"})
TextBefore(w) == SubSeq(w, 1, FirstMarker(w) - 1)
TextAfter(w)  == SubSeq(w, FirstMarker(w) + 1, Len(w))
FirstDecimal(w) == float_of(re_findall_number(w)[1])
\* the text has the numbers the rule needs
Parseable(w) ==
    IF HasMarker(w) THEN HasNumber(TextBefore(w)) /\ HasNumber(TextAfter(w))
    ELSE HasNumber(w)
\* quantity times unit weight, or the single number, before any unit scaling
PlainValue(w) ==
    IF HasMarker(w) THEN Mul(FirstDecimal(TextBefore(w)), FirstDecimal(TextAfter(w)))
    ELSE FirstDecimal(w)
KgSuffixed(w)   == EndsWith(w, <<"k", "g">>)
GramOrMl(w)     == EndsWith(w, <<"m", "l">>) \/ (EndsWith(w, <<"g">>) /\ ~KgSuffixed(w))

\* C3: a kg-suffixed value is not divided by 1000, with or without a
\* multiplication marker: "3kg" yields 3.0 and "5 x 1kg" yields 5.0.
C3_KgNotDivided ==
    (pc # "start" /\ weight_str.t = "str" /\ KgSuffixed(weight_str.s)
        /\ Parseable(weight_str.s))
    => weight_ret = PlainValue(weight_str.s)

\* C4: with a marker the result is (first number before it) times (first
\* number after it), without one it is the first number of the text; the
\* result is divided by 1000 when the text carries a g or ml unit, and only then.
C4_ProductAndUnit ==
    (pc # "start" /\ weight_str.t = "str" /\ Parseable(weight_str.s))
    => weight_ret = IF GramOrMl(weight_str.s)
                    THEN DivThousand(PlainValue(weight_str.s))
                    ELSE PlainValue(weight_str.s)

\* C5: convert_to_kg is total: every cell yields a number or null and nothing
\* is raised; non-text cells and text lacking a needed number yield null.
C5_Total ==
    pc # "start"
    => /\ weight_ret.t \in {"float", "None"}
       /\ weight_str.t # "str" => weight_ret = PyNone
       /\ (weight_str.t = "str" /\ ~Parseable(weight_str.s)) => weight_ret = PyNone
       /\ (weight_str.t = "str" /\ Parseable(weight_str.s)) => weight_ret.t = "float"

\* a marker with a number before it and none after it has been converted
C5_Witness ==
    /\ pc # "start"
    /\ weight_str = Str(<<"2", " ", "x", " ", "g">>)
    /\ weight_ret = PyNone

\* C8: the categorizer gives every weight_kg one class with half-open
\* boundaries: below 2 Light, [2, 40) Mid_Sized, [40, 140) Heavy, 140 and
\* above Truck_Required, and a null weight_kg Unknown.
C8_WeightClass ==
    pc = "classified"
    => LET w     == weight_kg
           lt(n) == w.m < n * Pow10(w.e)
       IN  /\ w.t \in {"float", "nan"}
           /\ w.t = "nan" => weight_class = T_Unknown
           /\ (w.t = "float" /\ lt(2)) => weight_class = T_Light
           /\ (w.t = "float" /\ ~lt(2) /\ lt(40)) => weight_class = T_Mid_Sized
           /\ (w.t = "float" /\ ~lt(40) /\ lt(140)) => weight_class = T_Heavy
           /\ (w.t = "float" /\ ~lt(140)) => weight_class = T_Truck_Required

\* the boundary 40.0 has been classified
C8_Witness ==
    pc = "classified" /\ weight_kg = Float(40, 0) /\ weight_class = T_Heavy

-----------------------------------------------------------------------------
(* is_valid_uuid and the uuid.UUID constructor it calls *)

HexSeq   == <<"0", "1", "2", "3", "4", "5", "6", "7", "8", "9",
              "a", "b", "c", "d", "e", "f">>
UpperSeq == <<"0", "1", "2", "3", "4", "5", "6", "7", "8", "9",
              "A", "B", "C", "D", "E", "F">>
HexChars == {HexSeq[i] : i \in 1..16} \cup {UpperSeq[i] : i \in 1..16}
HexVal(c) == (CHOOSE i \in 1..16 : HexSeq[i] = c \/ UpperSeq[i] = c) - 1

\* str.replace(old, "")
RECURSIVE str_remove(_, _)
str_remove(s, old) ==
    LET at == {i \in 1..Len(s) : i + Len(old) - 1 <= Len(s)
                                 /\ SubSeq(s, i, i + Len(old) - 1) = old}
    IN  IF at = {} THEN s
        ELSE SubSeq(s, 1, Min(at) - 1)
                 \o str_remove(SubSeq(s, Min(at) + Len(old), Len(s)), old)

\* str.strip(chars)
RECURSIVE str_strip(_, _)
str_strip(s, chars) ==
    IF s # <<>> /\ s[1] \in chars THEN str_strip(Tail(s), chars)
    ELSE IF s # <<>> /\ s[Len(s)] \in chars THEN str_strip(SubSeq(s, 1, Len(s) - 1), chars)
    ELSE s

\* uuid.UUID(hex, version=version): the 32 hex digits of the object, or the
\* exception raised.  int(hex, 16) is taken to reject every text that is not
\* made of hex digits (the sign, 0x and underscore forms it also reads cannot
\* be written back by str() and are not among the texts considered).
UUID(hex, version) ==
    IF hex.t = "None" THEN [exc |-> "TypeError", int |-> <<>>]
    ELSE IF hex.t # "str" THEN [exc |-> "AttributeError", int |-> <<>>]
    ELSE LET h1 == str_remove(str_remove(hex.s, <<"u", "r", "n", ":">>),
                              <<"u", "u", "i", "d", ":">>)
             h  == str_remove(str_strip(h1, {"{", "}"}), <<"-">>)
         IN  IF Len(h) # 32 THEN [exc |-> "ValueError", int |-> <<>>]
             ELSE IF \E i \in 1..32 : h[i] \notin HexChars
                  THEN [exc |-> "ValueError", int |-> <<>>]
             ELSE IF version \notin 1..5 THEN [exc |-> "ValueError", int |-> <<>>]
             ELSE [exc |-> "",
                   int |-> [i \in 1..32 |->
                               IF i = 13 THEN version              \* int |= version << 76
                               ELSE IF i = 17 THEN 8 + (HexVal(h[i]) % 4)  \* variant RFC 4122
                               ELSE HexVal(h[i])]]

\* str(uuid_obj): lower-case digits in groups of 8-4-4-4-12
uuid_str(int) ==
    LET d == [i \in 1..32 |-> HexSeq[int[i] + 1]]
    IN  SubSeq(d, 1, 8) \o <<"-">> \o SubSeq(d, 9, 12) \o <<"-">> \o SubSeq(d, 13, 16)
            \o <<"-">> \o SubSeq(d, 17, 20) \o <<"-">> \o SubSeq(d, 21, 32)

is_valid_uuid_parse_only(uuid_cell) ==
    LET uuid_obj == UUID(uuid_cell, 4)
    IN  IF uuid_obj.exc = "ValueError" THEN Bool(FALSE)
        ELSE IF uuid_obj.exc # "" THEN Raise(uuid_obj.exc)
        ELSE Bool(TRUE)
\* is_valid_uuid(uuid_to_test, version=4)
is_valid_uuid(uuid_cell) ==
    LET uuid_obj == UUID(uuid_cell, 4)
    IN  IF uuid_obj.exc = "ValueError" THEN Bool(FALSE)
        ELSE IF uuid_obj.exc # "" THEN Raise(uuid_obj.exc)
        ELSE Bool(uuid_str(uuid_obj.int) = uuid_cell.s)

-----------------------------------------------------------------------------
(* Texts the validator is applied to *)

\* str.upper() on hex text
upper(s) == [i \in 1..Len(s) |->
                IF s[i] \in HexChars THEN UpperSeq[HexVal(s[i]) + 1] ELSE s[i]]

\* 123e4567-e89b-V2d3-R456-426614174000 with version digit V and variant digit R
UuidText(v, r) ==
    <<"1", "2", "3", "e", "4", "5", "6", "7", "-", "e", "8", "9", "b", "-">> \o <<v>> \o <<"2", "d", "3", "-">> \o <<r>>
        \o <<"4", "5", "6", "-", "4", "2", "6", "6", "1", "4", "1", "7", "4", "0", "0", "0">>

T_uuid_v1    == UuidText("1", "a")
T_uuid_v4    == UuidText("4", "a")
T_not_a_uuid == <<"n", "o", "t", "-", "a", "-", "u", "u", "i", "d">>

UuidForms == {"plain", "upper", "braces", "urn", "bare", "short"}
UuidForm(form, u) ==
    CASE form = "plain"  -> u
      [] form = "upper"  -> upper(u)
      [] form = "braces" -> <<"{">> \o u \o <<"}">>
      [] form = "urn"    -> <<"u", "r", "n", ":", "u", "u", "i", "d", ":">> \o u
      [] form = "bare"   -> str_remove(u, <<"-">>)
      [] form = "short"  -> SubSeq(u, 1, Len(u) - 1)

UuidCells ==
    {Str(UuidForm(f, UuidText(HexSeq[v], HexSeq[r]))) : f \in UuidForms, v \in 1..16, r \in 1..16}
        \cup {Str(T_not_a_uuid), Str(<<>>), NaN, PyNone, Float(5, 0), Bool(TRUE)}

InitUuid ==
    /\ pc = "start"
    /\ uuid_to_test \in UuidCells
    /\ uuid_ret = PyNone
    /\ WeightIdle /\ FrameIdle /\ CleanIdle /\ IoIdle /\ StoresIdle

ValidateUuid ==
    /\ pc = "start"
    /\ uuid_ret' = is_valid_uuid(uuid_to_test)
    /\ pc' = "validated"
    /\ UNCHANGED <<uuid_to_test, weight_vars, frame_vars, clean_vars, io_vars, stores_vars>>

NextUuid == ValidateUuid

SpecUuid == InitUuid /\ [][NextUuid]_vars

HasUpperHex(s) == \E i \in 1..Len(s) : s[i] \in {"A", "B", "C", "D", "E", "F"}

\* C6 as stated: true for "123e4567-e89b-12d3-a456-426614174000", false for
\* "not-a-uuid", false for a UUID text with uppercase hex digits.
C6_AsStated ==
    pc = "validated"
    => /\ uuid_to_test = Str(T_uuid_v1) => uuid_ret = Bool(TRUE)
       /\ uuid_to_test = Str(T_not_a_uuid) => uuid_ret = Bool(FALSE)
       /\ (uuid_to_test.t = "str" /\ HasUpperHex(uuid_to_test.s)) => uuid_ret = Bool(FALSE)

\* C6 amended: true for the version-4 text "123e4567-e89b-42d3-a456-426614174000",
\* false for "123e4567-e89b-12d3-a456-426614174000" (version digit 1), false
\* for "not-a-uuid", false for a UUID text with uppercase hex digits.
C6_Amended ==
    pc = "validated"
    => /\ uuid_to_test = Str(T_uuid_v4) => uuid_ret = Bool(TRUE)
       /\ uuid_to_test = Str(T_uuid_v1) => uuid_ret = Bool(FALSE)
       /\ uuid_to_test = Str(T_not_a_uuid) => uuid_ret = Bool(FALSE)
       /\ (uuid_to_test.t = "str" /\ HasUpperHex(uuid_to_test.s)) => uuid_ret = Bool(FALSE)

\* the uppercase spelling of a version-4 UUID has been rejected
C6_Witness ==
    /\ pc = "validated"
    /\ uuid_to_test = Str(upper(T_uuid_v4))
    /\ uuid_ret = Bool(FALSE)

-----------------------------------------------------------------------------
(* DataFrames: the column labels, the row labels (index) and the rows, each *)
(* row a function from column label to cell.                                *)

DataFrame(columns, index, rows) == [columns |-> columns, index |-> index, rows |-> rows]

\* the k-th smallest element of a set of positions
Nth(S, k) == CHOOSE i \in S : Cardinality({j \in S : j < i}) = k - 1

\* the rows at the positions kept, last first
take_reversed(df, kept) ==
    LET n == Cardinality(kept)
    IN  DataFrame(df.columns,
                  [k \in 1..n |-> df.index[Nth(kept, n + 1 - k)]],
                  [k \in 1..n |-> df.rows[Nth(kept, n + 1 - k)]])
\* df[mask] / df.loc[mask]: the rows at the positions kept, in order
take(df, kept) ==
    LET n == Cardinality(kept)
    IN  DataFrame(df.columns,
                  [k \in 1..n |-> df.index[Nth(kept, k)]],
                  [k \in 1..n |-> df.rows[Nth(kept, k)]])

positions(df) == 1..Len(df.rows)

\* df[col] = f(row) for every row
assign(df, col, f(_)) ==
    DataFrame(df.columns \cup {col}, df.index,
              [k \in positions(df) |->
                  [c \in df.columns \cup {col} |->
                      IF c = col THEN f(df.rows[k]) ELSE df.rows[k][c]]])

\* df.drop(columns=cols, errors="ignore")
drop_columns(df, cols) ==
    DataFrame(df.columns \ cols, df.index,
              [k \in positions(df) |-> [c \in df.columns \ cols |-> df.rows[k][c]]])

\* df.rename(columns={old: new}); a label that is absent is left alone
rename(df, old, new) ==
    IF old \notin df.columns THEN df
    ELSE LET cols == (df.columns \ {old}) \cup {new}
         IN  DataFrame(cols, df.index,
                       [k \in positions(df) |->
                           [c \in cols |-> IF c = new THEN df.rows[k][old]
                                           ELSE df.rows[k][c]]])

\* df.replace(old, new): every cell equal to old, in every column
replace(df, old, new) ==
    DataFrame(df.columns, df.index,
              [k \in positions(df) |->
                  [c \in df.columns |-> IF df.rows[k][c] = old THEN new
                                        ELSE df.rows[k][c]]])

\* df.drop_duplicates(): the first of the rows equal in every column is kept
drop_duplicates(df) ==
    take(df, {k \in positions(df) : \A j \in 1..(k - 1) : df.rows[j] # df.rows[k]})

has_null(row) == \E c \in DOMAIN row : isna(row[c])

dropna_skipped(df) == df
\* df.dropna(): rows with a missing cell in any column go
dropna(df) == take(df, {k \in positions(df) : ~has_null(df.rows[k])})

\* df.set_index(col): the column becomes the row labels
set_index(df, col) ==
    DataFrame(df.columns \ {col},
              [k \in positions(df) |-> df.rows[k][col]],
              [k \in positions(df) |-> [c \in df.columns \ {col} |-> df.rows[k][c]]])

T_NULL == <<"N", "U", "L", "L">>

_clean_dataframe_replace_last(df, index) ==
    LET deduped  == drop_duplicates(df)
        dropped  == dropna(deduped)
        replaced == replace(dropped, Str(T_NULL), NaN)
    IN  IF index # "" /\ index \in replaced.columns THEN set_index(replaced, index)
        ELSE replaced
\* DataCleaning._clean_dataframe(df, index); index = "" stands for None
_clean_dataframe(df, index) ==
    LET replaced == replace(df, Str(T_NULL), NaN)
        deduped  == drop_duplicates(replaced)
        dropped  == dropna(deduped)
    IN  IF index # "" /\ index \in dropped.columns THEN set_index(dropped, index)
        ELSE dropped

-----------------------------------------------------------------------------
(* Regular expressions: a pattern piece maps the set of positions at which  *)
(* a match attempt may stand to the set of positions after the piece.       *)

WS == {" "}

\* the en dash U+2013, written as one character of a text
EnDash == "en-dash"

\* one character of class C
re_one(s, P, C)  == {p + 1 : p \in {q \in P : q <= Len(s) /\ s[q] \in C}}
\* C?
re_opt(s, P, C)  == P \cup re_one(s, P, C)
\* C{lo,hi}
re_rep(s, P, C, lo, hi) ==
    {q \in 1..(Len(s) + 1) :
        \E p \in P : /\ q - p >= lo /\ q - p <= hi
                     /\ \A i \in p..(q - 1) : s[i] \in C}
\* a literal text
RECURSIVE re_lit(_, _, _)
re_lit(s, P, text) ==
    IF text = <<>> THEN P ELSE re_lit(s, re_one(s, P, {Head(text)}), Tail(text))

\* \s?\d{3,4}\s?\d{3,4}
uk_tail(s, P) ==
    re_rep(s, re_opt(s, re_rep(s, re_opt(s, P, WS), Digits, 3, 4), WS), Digits, 3, 4)

\* str.match(uk_regex):
\* ^(?:(?:\+44\s?\(0\)\s?\d{2,4}|\(?\d{2,5}\)?)\s?\d{3,4}\s?\d{3,4}$
\*     |\d{10,11}|\+44\s?\d{2,5}\s?\d{3,4}\s?\d{3,4})$
match_uk(s) ==
    LET plus44 == re_lit(s, {1}, <<"+", "4", "4">>)
        a1 == re_rep(s, re_opt(s, re_lit(s, re_opt(s, plus44, WS), <<"(", "0", ")">>), WS),
                     Digits, 2, 4)
        a2 == re_opt(s, re_rep(s, re_opt(s, {1}, {"("}), Digits, 2, 5), {")"})
        alt1 == uk_tail(s, a1 \cup a2)
        alt2 == re_rep(s, {1}, Digits, 10, 11)
        alt3 == uk_tail(s, re_rep(s, re_opt(s, plus44, WS), Digits, 2, 5))
    IN  (Len(s) + 1) \in (alt1 \cup alt2 \cup alt3)

\* str.match(de_regex): (\(?([\d \-\)\<en dash>\+\/\(]+){6,}\)?([ .\-<en dash>\/]?)([\d]+))
match_de(s) ==
    LET body == Digits \cup {" ", "-", ")", EnDash, "+", "/", "("}
        p1 == re_opt(s, {1}, {"("})
        p2 == re_rep(s, p1, body, 6, Len(s))
        p3 == re_opt(s, p2, {")"})
        p4 == re_opt(s, p3, {" ", ".", "-", EnDash, "/"})
    IN  re_rep(s, p4, Digits, 1, Len(s)) # {}

\* str.match(us_regex): \(?\d{3}\)?-? *\d{3}-? *-?\d{4}
match_us(s) ==
    LET p1 == re_opt(s, re_rep(s, re_opt(s, {1}, {"("}), Digits, 3, 3), {")"})
        p2 == re_rep(s, re_opt(s, p1, {"-"}), {" "}, 0, Len(s))
        p3 == re_opt(s, re_rep(s, p2, Digits, 3, 3), {"-"})
        p4 == re_opt(s, re_rep(s, p3, {" "}, 0, Len(s)), {"-"})
    IN  re_rep(s, p4, Digits, 4, 4) # {}

\* the decimal digits of a natural number
RECURSIVE digits_of(_)
digits_of(n) ==
    IF n < 10 THEN <<DigitSeq[n + 1]>> ELSE digits_of(n \div 10) \o <<DigitSeq[(n % 10) + 1]>>

\* the e digits of the fraction f / 10^e
RECURSIVE frac_digits(_, _)
frac_digits(f, e) ==
    IF e = 0 THEN <<>> ELSE frac_digits(f \div 10, e - 1) \o <<DigitSeq[(f % 10) + 1]>>

\* Series.astype(str) on one cell
astype_str(c) ==
    CASE c.t = "str"   -> c
      [] c.t = "nan"   -> Str(<<"n", "a", "n">>)
      [] c.t = "None"  -> Str(<<"N", "o", "n", "e">>)
      [] c.t = "bool"  -> Str(IF c.m = 1 THEN <<"T", "r", "u", "e">>
                              ELSE <<"F", "a", "l", "s", "e">>)
      [] c.t = "date"  -> Str(c.s)
      [] c.t = "float" -> Str(digits_of(c.m \div Pow10(c.e)) \o <<".">>
                              \o (IF c.e = 0 THEN <<"0">>
                                  ELSE frac_digits(c.m % Pow10(c.e), c.e)))

-----------------------------------------------------------------------------
(* Dates *)

DaysIn(y, mo) ==
    IF mo = 2 THEN (IF y % 4 = 0 /\ (y % 100 # 0 \/ y % 400 = 0) THEN 29 ELSE 28)
    ELSE IF mo \in {4, 6, 9, 11} THEN 30 ELSE 31

\* pd.to_datetime(..., errors="coerce").dt.date on one cell.  Of the layouts
\* the parser reads, YYYY-MM-DD is the one written out here; the texts
\* considered are of that layout or are no date in any layout.
to_datetime_date(c) ==
    IF c.t = "date" THEN c
    ELSE IF c.t # "str" THEN NaN
    ELSE LET s == c.s
         IN  IF /\ Len(s) = 10 /\ s[5] = "-" /\ s[8] = "-"
                /\ \A i \in {1, 2, 3, 4, 6, 7, 9, 10} : s[i] \in Digits
             THEN LET y  == int_of_digits(SubSeq(s, 1, 4))
                      mo == int_of_digits(SubSeq(s, 6, 7))
                      dd == int_of_digits(SubSeq(s, 9, 10))
                  IN  IF mo \in 1..12 /\ dd \in 1..DaysIn(y, mo) THEN Date(s) ELSE NaN
             ELSE NaN

-----------------------------------------------------------------------------
(* The result of a cleaner call: the exception raised ("" for none), the    *)
(* caller's table as the call leaves it, and the table returned.            *)

Returned(arg, ret) == [exc |-> "", arg |-> arg, ret |-> ret]
Raised(exc, arg)   == [exc |-> exc, arg |-> arg, ret |-> DataFrame({}, <<>>, <<>>)]

T_GB == <<"G", "B">>
T_DE == <<"D", "E">>
T_US == <<"U", "S">>
T_United_Kingdom == <<"U", "n", "i", "t", "e", "d", " ", "K", "i", "n", "g", "d", "o", "m">>

\* df.loc[(country_code == code) & ~phone_number.astype(str).str.match(regex),
\*        "phone_number"] = np.nan
null_phone(df, code, matches(_)) ==
    assign(df, "phone_number",
           LAMBDA row : IF row["country_code"] = Str(code)
                           /\ ~matches(astype_str(row["phone_number"]).s)
                        THEN NaN ELSE row["phone_number"])

\* the statements of user_columns_cleaned with the phone numbers validated
\* before the United Kingdom country code is corrected
user_columns_cleaned_phone_first(df) ==
    LET d1 == assign(df, "date_of_birth", LAMBDA row : to_datetime_date(row["date_of_birth"]))
        d2 == assign(d1, "join_date", LAMBDA row : to_datetime_date(row["join_date"]))
        d3 == null_phone(d2, T_GB, match_uk)
        d4 == null_phone(d3, T_DE, match_de)
        d5 == null_phone(d4, T_US, match_us)
    IN  assign(d5, "country_code",
               LAMBDA row : IF row["country"] = Str(T_United_Kingdom)
                            THEN Str(T_GB) ELSE row["country_code"])
\* lines 30-61 of clean_user_data, the same statements as lines 12-25 of the
\* earlier version: dates, United Kingdom country code, phone numbers
user_columns_cleaned(df) ==
    LET d1 == assign(df, "date_of_birth", LAMBDA row : to_datetime_date(row["date_of_birth"]))
        d2 == assign(d1, "join_date", LAMBDA row : to_datetime_date(row["join_date"]))
        d3 == assign(d2, "country_code",
                     LAMBDA row : IF row["country"] = Str(T_United_Kingdom)
                                  THEN Str(T_GB) ELSE row["country_code"])
        d4 == null_phone(d3, T_GB, match_uk)
        d5 == null_phone(d4, T_DE, match_de)
    IN  null_phone(d5, T_US, match_us)

\* the exception the first failing call of df[col].apply(is_valid_uuid) raises
uuid_apply_exc(df, col) ==
    LET bad == {k \in positions(df) : is_valid_uuid(df.rows[k][col]).t = "raise"}
    IN  IF bad = {} THEN "" ELSE is_valid_uuid(df.rows[Min(bad)][col]).s[1]

\* df[df[col].apply(lambda x: is_valid_uuid(x))]
uuid_filtered(df, col) ==
    take(df, {k \in positions(df) : is_valid_uuid(df.rows[k][col]) = Bool(TRUE)})

country_code_len_2_skipped(df) == df
\* df[df["country_code"].str.len() == 2]: .str.len() of a cell that is not text
\* is NaN, which is not 2
country_code_len_2(df) ==
    take(df, {k \in positions(df) :
                 /\ df.rows[k]["country_code"].t = "str"
                 /\ Len(df.rows[k]["country_code"].s) = 2})

\* DataCleaning.clean_user_data of src/src/data_cleaning.py
clean_user_data(df) ==
    LET cleaned == _clean_dataframe(df, "index")
        columns == user_columns_cleaned(cleaned)
        valid   == uuid_filtered(columns, "user_uuid")
        two     == country_code_len_2(valid)
    IN  IF uuid_apply_exc(columns, "user_uuid") # ""
        THEN Raised(uuid_apply_exc(columns, "user_uuid"), columns)
        ELSE Returned(columns, dropna(two))

\* DataCleaning.clean_user_data of src/data_cleaning.py, the version src/main.py runs
legacy_clean_user_data(df) ==
    IF "index" \notin df.columns THEN Raised("KeyError", df)
    ELSE LET indexed == set_index(df, "index")
             columns == user_columns_cleaned(indexed)
             c1 == assign(columns, "country_code", LAMBDA row : astype_str(row["country_code"]))
             c2 == assign(c1, "phone_number", LAMBDA row : astype_str(row["phone_number"]))
             c3 == assign(c2, "email_address", LAMBDA row : astype_str(row["email_address"]))
             c4 == assign(c3, "address", LAMBDA row : astype_str(row["address"]))
         IN  Returned(dropna(c4), dropna(c4))

-----------------------------------------------------------------------------
(* clean_card_data, clean_store_data *)

\* the texts pd.read_csv reads as missing by default
csv_na_values ==
    { <<>>, <<"N", "U", "L", "L">>,
      <<"N", "/", "A">>,
      <<"N", "A">>,
      <<"N", "a", "N">>,
      <<"n", "a", "n">>,
      <<"n", "u", "l", "l">>,
      <<"N", "o", "n", "e">>,
      <<"n", "/", "a">>,
      <<"#", "N", "/", "A">>,
      <<"<", "N", "A", ">">> }

\* pd.read_csv(csv_file): the cells of the file, the missing-value texts read
\* as NaN, rows labelled 0, 1, ...  Every column keeps its cells as text: the
\* files considered hold a non-numeric text in each column .str is applied to.
read_csv(csv_file) ==
    DataFrame(csv_file.columns,
              [k \in positions(csv_file) |-> Float(k - 1, 0)],
              [k \in positions(csv_file) |->
                  [c \in csv_file.columns |->
                      IF csv_file.rows[k][c].t = "str" /\ csv_file.rows[k][c].s \in csv_na_values
                      THEN NaN ELSE csv_file.rows[k][c]]])

\* Series.str.replace(r"^\?+", "", regex=True) on one cell
RECURSIVE strip_question_marks(_)
strip_question_marks(s) ==
    IF s # <<>> /\ s[1] = "?" THEN strip_question_marks(Tail(s)) ELSE s

\* a .str method applied to one cell: a cell that is not text gives NaN
str_method(c, f(_)) == IF c.t = "str" THEN Str(f(c.s)) ELSE NaN

clean_card_data(csv_file) ==
    LET df      == read_csv(csv_file)
        cleaned == _clean_dataframe(df, "Unnamed: 0")
        d1 == assign(cleaned, "date_payment_confirmed",
                     LAMBDA row : to_datetime_date(row["date_payment_confirmed"]))
        d2 == assign(d1, "card_number",
                     LAMBDA row : str_method(row["card_number"], strip_question_marks))
    IN  Returned(csv_file, dropna(d2))

T_N_A == <<"N", "/", "A">>
T_eeEurope  == <<"e", "e", "E", "u", "r", "o", "p", "e">>
T_Europe    == <<"E", "u", "r", "o", "p", "e">>
T_eeAmerica == <<"e", "e", "A", "m", "e", "r", "i", "c", "a">>
T_America   == <<"A", "m", "e", "r", "i", "c", "a">>

\* df.iloc[0] = df.iloc[0].fillna("N/A")
fill_first_row(df) ==
    DataFrame(df.columns, df.index,
              [k \in positions(df) |->
                  [c \in df.columns |->
                      IF k = 1 /\ isna(df.rows[k][c]) THEN Str(T_N_A) ELSE df.rows[k][c]]])

null_invalid_country_skipped(df) == df
\* df.loc[~df["country_code"].isin(["DE", "US", "GB"]), "country_code"] = np.nan
null_invalid_country(df) ==
    assign(df, "country_code",
           LAMBDA row : IF row["country_code"] \in {Str(T_DE), Str(T_US), Str(T_GB)}
                        THEN row["country_code"] ELSE NaN)

\* df.loc[df["continent"] == wrong, "continent"] = right
fix_continent(df, wrong, right) ==
    assign(df, "continent",
           LAMBDA row : IF row["continent"] = Str(wrong) THEN Str(right)
                        ELSE row["continent"])

\* pd.to_numeric(Series.str.extract("(\d+)", expand=False), errors="coerce")
extract_staff_number(c) ==
    IF c.t # "str" THEN NaN
    ELSE LET starts == {i \in 1..Len(c.s) : c.s[i] \in Digits}
         IN  IF starts = {} THEN NaN
             ELSE Float(int_of_digits(SubSeq(c.s, Min(starts),
                                             DigitRunEnd(c.s, Min(starts)))), 0)

clean_store_data(csv_file) ==
    LET df == read_csv(csv_file)
    IN  IF "lat" \notin df.columns THEN Raised("KeyError", csv_file)
        ELSE IF df.rows = <<>> THEN Raised("IndexError", csv_file)
        ELSE LET no_lat  == drop_columns(df, {"lat"})
                 filled  == fill_first_row(no_lat)
                 cleaned == _clean_dataframe(filled, "index")
                 d1 == null_invalid_country(cleaned)
                 d2 == fix_continent(fix_continent(d1, T_eeEurope, T_Europe),
                                     T_eeAmerica, T_America)
                 d3 == assign(d2, "staff_numbers",
                              LAMBDA row : extract_staff_number(row["staff_numbers"]))
                 d4 == assign(d3, "opening_date",
                              LAMBDA row : to_datetime_date(row["opening_date"]))
                 d5 == dropna(d4)
             IN  Returned(csv_file, replace(d5, Str(T_N_A), NaN))

-----------------------------------------------------------------------------
(* convert_product_weights, clean_products_data *)

convert_product_weights(df) ==
    LET d1 == assign(df, "weight_kg", LAMBDA row : convert_to_kg(row["weight"]))
        raised == {k \in positions(d1) : d1.rows[k]["weight_kg"].t = "raise"}
        d2 == drop_columns(d1, {"weight"})
        d3 == assign(d2, "weight_kg", LAMBDA row : round5(to_numeric(row["weight_kg"])))
    IN  IF "weight" \notin df.columns THEN Raised("KeyError", df)
        ELSE IF raised # {} THEN Raised(d1.rows[Min(raised)]["weight_kg"].s[1], df)
        ELSE Returned(d3, d3)

UpperLetters == <<"A", "B", "C", "D", "E", "F", "G", "H", "I", "J", "K", "L", "M", "N", "O", "P", "Q", "R", "S", "T", "U", "V", "W", "X", "Y", "Z">>
LowerLetters == <<"a", "b", "c", "d", "e", "f", "g", "h", "i", "j", "k", "l", "m", "n", "o", "p", "q", "r", "s", "t", "u", "v", "w", "x", "y", "z">>

\* str.lower()
str_lower(s) ==
    [i \in 1..Len(s) |->
        IF \E j \in 1..26 : UpperLetters[j] = s[i]
        THEN LowerLetters[CHOOSE j \in 1..26 : UpperLetters[j] = s[i]]
        ELSE s[i]]

\* the pound sign, written as one character of a text
Pound == "pound-sign"

\* Series.round(2) on one cell, ties to even
round2(a) ==
    IF a.t # "float" \/ a.e <= 2 THEN a
    ELSE LET unit == Pow10(a.e - 2)
             q    == a.m \div unit
             r    == a.m % unit
             up   == 2 * r > unit \/ (2 * r = unit /\ q % 2 = 1)
         IN  Float(IF up THEN q + 1 ELSE q, 2)

\* the filter of clean_user_data and clean_orders_data, put in its place
match_uuid_pattern_is_valid_uuid(c) == is_valid_uuid(astype_str(c)) = Bool(TRUE)
\* re.match(uuid_pattern, str(x)): 8-4-4-4-12 hex digits of either case; the
\* pattern's "$" also matches before a newline that ends the text
match_uuid_pattern(c) ==
    LET s == astype_str(c).s
    IN  /\ \/ Len(s) = 36
           \/ Len(s) = 37 /\ s[37] = "\n"
        /\ \A i \in 1..36 : IF i \in {9, 14, 19, 24} THEN s[i] = "-" ELSE s[i] \in HexChars

T_Still_avaliable == <<"S", "t", "i", "l", "l", "_", "a", "v", "a", "l", "i", "a", "b", "l", "e">>

clean_products_data(df) ==
    LET cleaned == _clean_dataframe(df, "Unnamed: 0")
        d1 == IF "product_name" \in cleaned.columns
              THEN assign(cleaned, "product_name",
                          LAMBDA row : str_method(str_method(row["product_name"],
                                                  LAMBDA t : str_strip(t, WS)), str_lower))
              ELSE cleaned
        d2 == IF "product_price" \in d1.columns
              THEN assign(d1, "product_price",
                          LAMBDA row :
                              round2(to_numeric(
                                  str_method(str_method(row["product_price"],
                                             LAMBDA t : str_remove(t, <<Pound>>)),
                                             LAMBDA t : str_strip(t, WS)))))
              ELSE d1
        d3 == rename(rename(rename(d2, "product_price", "product_price_pounds"),
                            "removed", "still_available"), "EAN", "ean")
        need == {"still_available", "date_added", "weight_kg", "uuid"}
        d4 == assign(d3, "still_available",
                     LAMBDA row : Bool(row["still_available"] = Str(T_Still_avaliable)))
        d5 == assign(d4, "date_added", LAMBDA row : to_datetime_date(row["date_added"]))
        d6 == assign(d5, "weight_class",
                     LAMBDA row : Str(weight_class_of(row["weight_kg"])))
        d7 == take(d6, {k \in positions(d6) : match_uuid_pattern(d6.rows[k]["uuid"])})
    IN  IF ~(need \subseteq d3.columns) THEN Raised("KeyError", d3)
        ELSE Returned(d6, d7)

-----------------------------------------------------------------------------
(* clean_orders_data, clean_date_times *)

clean_orders_data(df) ==
    LET dropped == drop_columns(df, {"first_name", "last_name", "1"})
        cleaned == _clean_dataframe(dropped, "index")
        valid   == uuid_filtered(cleaned, "user_uuid")
        renamed == rename(valid, "level_0", "order_id")
    IN  IF "user_uuid" \notin cleaned.columns THEN Raised("KeyError", cleaned)
        ELSE IF uuid_apply_exc(cleaned, "user_uuid") # ""
        THEN Raised(uuid_apply_exc(cleaned, "user_uuid"), cleaned)
        ELSE Returned(cleaned, dropna(renamed))

valid_time_periods ==
    { <<"L", "a", "t", "e", "_", "H", "o", "u", "r", "s">>, <<"M", "o", "r", "n", "i", "n", "g">>, <<"M", "i", "d", "d", "a", "y">>, <<"E", "v", "e", "n", "i", "n", "g">> }

clean_date_times(df) ==
    LET cleaned == _clean_dataframe(df, "")
    IN  IF "time_period" \notin cleaned.columns THEN Raised("KeyError", cleaned)
        ELSE Returned(cleaned,
                      take(cleaned, {k \in positions(cleaned) :
                                        /\ cleaned.rows[k]["time_period"].t = "str"
                                        /\ cleaned.rows[k]["time_period"].s \in valid_time_periods}))

-----------------------------------------------------------------------------
(* The tables the cleaners are given.  A table is built from a base row of  *)
(* its dataset: each row takes the base row, its position as key, and one   *)
(* variant (a list of column overrides); the last row may instead repeat    *)
(* the first row exactly.                                                   *)

MaxRows == 2

\* the row with the overrides of a variant applied
overridden(base, variant) ==
    [c \in DOMAIN base |->
        IF \E i \in 1..Len(variant) : variant[i][1] = c
        THEN variant[CHOOSE i \in 1..Len(variant) : variant[i][1] = c][2]
        ELSE base[c]]

table_of(base, key, variants, repeat) ==
    LET n      == Len(variants)
        row(k) == overridden(IF key = "" THEN base
                             ELSE [base EXCEPT ![key] = Str(<<DigitSeq[k]>>)],
                             variants[k])
    IN  DataFrame(DOMAIN base,
                  [k \in 1..n |-> Float(k - 1, 0)],
                  [k \in 1..n |-> IF repeat /\ k = n /\ n > 1 THEN row(1) ELSE row(k)])

tables(base, key, Variants) ==
    {table_of(base, key, vs, repeat) :
        vs \in UNION {[1..n -> Variants] : n \in 0..MaxRows}, repeat \in BOOLEAN}

T_soon == <<"s", "o", "o", "n">>
T_GGB == <<"G", "G", "B">>
T_DEU == <<"D", "E", "U">>
T_12345 == <<"1", "2", "3", "4", "5">>
T_phone_us == <<"(", "1", "2", "3", ")", " ", "4", "5", "6", "-", "7", "8", "9", "0">>
T_phone_de == <<"(", "0", "3", "0", ")", " ", "1", "2", "3", "4", "5">>
T_phone_uk == <<"+", "4", "4", " ", "2", "0", " ", "7", "9", "4", "6", " ", "0", "9", "5", "8">>
T_Germany == <<"G", "e", "r", "m", "a", "n", "y">>
T_United_States == <<"U", "n", "i", "t", "e", "d", " ", "S", "t", "a", "t", "e", "s">>

UserBase ==
    (("index" :> Str(<<"0">>)) @@
     ("first_name" :> Str(<<"A", "n", "n">>)) @@
     ("date_of_birth" :> Str(<<"1", "9", "9", "0", "-", "0", "9", "-", "2", "1">>)) @@
     ("country" :> Str(T_Germany)) @@
     ("country_code" :> Str(T_DE)) @@
     ("phone_number" :> Str(T_phone_de)) @@
     ("email_address" :> Str(<<"a", "@", "b", ".", "d", "e">>)) @@
     ("address" :> Str(<<"1", " ", "W", "e", "g">>)) @@
     ("join_date" :> Str(<<"2", "0", "1", "8", "-", "1", "0", "-", "1", "0">>)) @@
     ("user_uuid" :> Str(T_uuid_v4)))

UserVariants ==
    { <<>>,
      <<<<"country", Str(T_Germany)>>, <<"country_code", Str(T_DE)>>, <<"phone_number", Str(T_12345)>>>>,
      <<<<"country", Str(T_United_States)>>, <<"country_code", Str(T_US)>>, <<"phone_number", Str(T_phone_us)>>>>,
      <<<<"country", Str(T_United_States)>>, <<"country_code", Str(T_US)>>, <<"phone_number", Str(T_12345)>>>>,
      <<<<"country", Str(T_United_Kingdom)>>, <<"country_code", Str(T_GB)>>, <<"phone_number", Str(T_phone_uk)>>>>,
      <<<<"country", Str(T_United_Kingdom)>>, <<"country_code", Str(T_GGB)>>, <<"phone_number", Str(T_phone_uk)>>>>,
      <<<<"country", Str(T_United_Kingdom)>>, <<"country_code", Str(T_US)>>, <<"phone_number", Str(T_phone_us)>>>>,
      <<<<"country", Str(T_United_Kingdom)>>, <<"country_code", Str(T_US)>>, <<"phone_number", Str(T_phone_uk)>>>>,
      <<<<"country", Str(T_United_Kingdom)>>, <<"country_code", Str(T_GB)>>, <<"phone_number", Str(T_12345)>>>>,
      <<<<"country", Str(<<"F", "r", "a", "n", "c", "e">>)>>, <<"country_code", Str(<<"F", "R">>)>>, <<"phone_number", Str(T_12345)>>>>,
      <<<<"country", Str(T_Germany)>>, <<"country_code", Str(T_DEU)>>, <<"phone_number", Str(T_phone_de)>>>>,
      <<<<"phone_number", Str(T_NULL)>>>>,
      <<<<"country_code", NaN>>>>,
      <<<<"user_uuid", Str(T_uuid_v1)>>>>,
      <<<<"user_uuid", Str(upper(T_uuid_v4))>>>>,
      <<<<"user_uuid", Str(T_not_a_uuid)>>>>,
      <<<<"user_uuid", Str(T_NULL)>>>>,
      <<<<"first_name", Str(T_NULL)>>>>,
      <<<<"first_name", NaN>>>>,
      <<<<"date_of_birth", Str(<<"1", "9", "9", "0", "-", "1", "3", "-", "0", "1">>)>>>>,
      <<<<"join_date", Str(T_soon)>>>>,
      <<<<"address", NaN>>>> }

OrdersBase ==
    (("level_0" :> Str(<<"0">>)) @@
     ("index" :> Str(<<"0">>)) @@
     ("date_uuid" :> Str(UuidText("4", "8"))) @@
     ("first_name" :> NaN) @@
     ("last_name" :> NaN) @@
     ("user_uuid" :> Str(T_uuid_v4)) @@
     ("card_number" :> Str(<<"3", "0", "0", "6", "0", "7", "7", "3", "2", "9", "6", "1", "9", "7">>)) @@
     ("store_code" :> Str(<<"B", "L", "-", "8", "3", "8", "7", "5", "0", "6", "C">>)) @@
     ("product_code" :> Str(<<"R", "7", "-", "3", "1", "2", "6", "9", "3", "3", "h">>)) @@
     ("1" :> NaN) @@
     ("product_quantity" :> Float(3, 0)))

OrdersVariants ==
    { <<>>,
      <<<<"user_uuid", Str(T_uuid_v1)>>>>,
      <<<<"user_uuid", Str(upper(T_uuid_v4))>>>>,
      <<<<"user_uuid", Str(T_not_a_uuid)>>>>,
      <<<<"user_uuid", Str(T_NULL)>>>>,
      <<<<"user_uuid", NaN>>>>,
      <<<<"user_uuid", Float(5, 0)>>>>,
      <<<<"store_code", Str(T_NULL)>>>>,
      <<<<"product_quantity", NaN>>>>,
      <<<<"first_name", Str(<<"B", "o", "b">>)>>, <<"last_name", Str(<<"R", "a", "y">>)>>>>,
      <<<<"product_quantity", Float(7, 0)>>>> }

DateTimesBase ==
    (("timestamp" :> Str(<<"2", "2", ":", "0", "0", ":", "0", "6">>)) @@
     ("month" :> Str(<<"9">>)) @@
     ("year" :> Str(<<"2", "0", "1", "2">>)) @@
     ("day" :> Str(<<"1", "9">>)) @@
     ("time_period" :> Str(<<"E", "v", "e", "n", "i", "n", "g">>)) @@
     ("date_uuid" :> Str(UuidText("4", "8"))))

DateTimesVariants ==
    { <<>>,
      <<<<"time_period", Str(<<"M", "o", "r", "n", "i", "n", "g">>)>>>>,
      <<<<"time_period", Str(<<"M", "i", "d", "d", "a", "y">>)>>, <<"day", Str(<<"7">>)>>>>,
      <<<<"time_period", Str(<<"L", "a", "t", "e", "_", "H", "o", "u", "r", "s">>)>>, <<"day", Str(<<"8">>)>>>>,
      <<<<"time_period", Str(T_NULL)>>>>,
      <<<<"time_period", Str(<<"D", "X", "B", "U", "6", "G", "X", "1", "V", "C">>)>>>>,
      <<<<"time_period", Str(<<"e", "v", "e", "n", "i", "n", "g">>)>>>>,
      <<<<"time_period", NaN>>>>,
      <<<<"time_period", Float(5, 0)>>>>,
      <<<<"month", Str(T_NULL)>>>>,
      <<<<"day", Str(<<"2", "0">>)>>>>,
      <<<<"date_uuid", NaN>>>> }

CardBase ==
    (("Unnamed: 0" :> Str(<<"0">>)) @@
     ("card_number" :> Str(<<"3", "0", "0", "6", "0", "7", "7", "3", "2", "9", "6", "1", "9", "7">>)) @@
     ("expiry_date" :> Str(<<"1", "0", "/", "2", "8">>)) @@
     ("card_provider" :> Str(<<"V", "I", "S", "A", " ", "1", "6", " ", "d", "i", "g", "i", "t">>)) @@
     ("date_payment_confirmed" :> Str(<<"2", "0", "1", "5", "-", "1", "1", "-", "2", "5">>)))

CardVariants ==
    { <<>>,
      <<<<"card_number", Str(<<"?", "?", "4", "9", "7", "1", "8", "5", "8", "6", "3", "7", "6", "6", "4", "4", "8", "1">>)>>>>,
      <<<<"card_number", Str(<<"?", "?", "?">>)>>>>,
      <<<<"card_number", Str(T_NULL)>>>>,
      <<<<"card_number", Str(<<>>)>>>>,
      <<<<"expiry_date", Str(<<"1", "3", "/", "9", "9">>)>>>>,
      <<<<"expiry_date", Str(<<"V", "A", "B", "9", "D", "S", "B", "8", "Z", "M">>)>>>>,
      <<<<"expiry_date", Str(T_NULL)>>>>,
      <<<<"card_provider", Str(T_N_A)>>>>,
      <<<<"date_payment_confirmed", Str(T_soon)>>>>,
      <<<<"date_payment_confirmed", Str(<<"2", "0", "1", "5", "-", "0", "2", "-", "3", "0">>)>>>> }

StoreBase ==
    (("index" :> Str(<<"0">>)) @@
     ("address" :> Str(<<"F", "l", "a", "t", " ", "7", "2", "W">>)) @@
     ("longitude" :> Str(<<"5", "1", ".", "6", "2", "9", "0", "7">>)) @@
     ("lat" :> Str(<<>>)) @@
     ("locality" :> Str(<<"H", "i", "g", "h", " ", "W", "y", "c", "o", "m", "b", "e">>)) @@
     ("store_code" :> Str(<<"H", "I", "-", "9", "B", "9", "7", "E", "E", "4", "E">>)) @@
     ("staff_numbers" :> Str(<<"3", "4">>)) @@
     ("opening_date" :> Str(<<"1", "9", "9", "6", "-", "1", "0", "-", "2", "5">>)) @@
     ("store_type" :> Str(<<"L", "o", "c", "a", "l">>)) @@
     ("latitude" :> Str(<<"-", "0", ".", "7", "4", "9", "3", "4">>)) @@
     ("country_code" :> Str(T_GB)) @@
     ("continent" :> Str(T_Europe)))

\* the online store of the source file: no address, locality or coordinates
StoreVariants ==
    { <<>>,
      <<<<"address", Str(<<>>)>>, <<"longitude", Str(<<>>)>>, <<"locality", Str(<<>>)>>, <<"latitude", Str(<<>>)>>, <<"store_code", Str(<<"W", "E", "B", "-", "1", "3", "8", "8", "0", "1", "2", "W">>)>>, <<"store_type", Str(<<"W", "e", "b", " ", "P", "o", "r", "t", "a", "l">>)>>, <<"staff_numbers", Str(<<"3", "2", "5">>)>>>>,
      <<<<"address", Str(<<>>)>>, <<"longitude", Str(<<>>)>>, <<"locality", Str(<<>>)>>, <<"latitude", Str(<<>>)>>, <<"store_code", Str(<<"W", "E", "B", "-", "1", "3", "8", "8", "0", "1", "2", "W">>)>>, <<"store_type", Str(<<"W", "e", "b", " ", "P", "o", "r", "t", "a", "l">>)>>, <<"staff_numbers", Str(<<"3", "2", "5">>)>>, <<"country_code", Str(<<>>)>>>>,
      <<<<"address", Str(<<>>)>>, <<"longitude", Str(<<>>)>>, <<"locality", Str(<<>>)>>, <<"latitude", Str(<<>>)>>, <<"store_code", Str(<<"W", "E", "B", "-", "1", "3", "8", "8", "0", "1", "2", "W">>)>>, <<"store_type", Str(<<"W", "e", "b", " ", "P", "o", "r", "t", "a", "l">>)>>, <<"staff_numbers", Str(<<>>)>>>>,
      <<<<"address", Str(<<>>)>>, <<"longitude", Str(<<>>)>>, <<"locality", Str(<<>>)>>, <<"latitude", Str(<<>>)>>, <<"store_code", Str(<<"W", "E", "B", "-", "1", "3", "8", "8", "0", "1", "2", "W">>)>>, <<"store_type", Str(<<"W", "e", "b", " ", "P", "o", "r", "t", "a", "l">>)>>, <<"staff_numbers", Str(<<"3", "2", "5">>)>>, <<"opening_date", Str(<<>>)>>>>,
      <<<<"country_code", Str(<<"F", "R">>)>>>>,
      <<<<"country_code", Str(T_DE)>>>>,
      <<<<"country_code", Str(T_US)>>, <<"continent", Str(T_eeAmerica)>>>>,
      <<<<"country_code", Str(T_NULL)>>>>,
      <<<<"country_code", Str(<<"Y", "E", "L", "V", "M", "5", "3", "6", "Y", "T">>)>>>>,
      <<<<"continent", Str(T_eeEurope)>>>>,
      <<<<"staff_numbers", Str(<<"J", "7", "8">>)>>>>,
      <<<<"staff_numbers", Str(<<"a", "b", "c">>)>>>>,
      <<<<"staff_numbers", Str(<<>>)>>>>,
      <<<<"opening_date", Str(T_soon)>>>>,
      <<<<"lat", Str(<<"1", "3", "K", "J", "Z", "8", "9", "0", "J", "H">>)>>>>,
      <<<<"address", Str(<<>>)>>>>,
      <<<<"store_type", Str(T_N_A)>>>> }

ProductsBase ==
    (("Unnamed: 0" :> Str(<<"0">>)) @@
     ("product_name" :> Str(<<"F", "u", "r", "R", "e", "a", "l", " ", "D", "o", "g">>)) @@
     ("product_price" :> Str(<<Pound>> \o <<"3", "9", ".", "9", "9">>)) @@
     ("weight" :> Str(<<"1", ".", "6", "k", "g">>)) @@
     ("category" :> Str(<<"t", "o", "y", "s">>)) @@
     ("EAN" :> Str(<<"7", "4", "2", "5", "7", "1", "0", "9", "3", "5", "1", "1", "5">>)) @@
     ("date_added" :> Str(<<"2", "0", "0", "5", "-", "1", "2", "-", "0", "2">>)) @@
     ("uuid" :> Str(T_uuid_v4)) @@
     ("removed" :> Str(T_Still_avaliable)) @@
     ("product_code" :> Str(<<"R", "7", "-", "3", "1", "2", "6", "9", "3", "3", "h">>)))

ProductsVariants ==
    { <<>>,
      <<<<"product_name", Str(<<" ", "T", "e", "d", "d", "y", " ">>)>>>>,
      <<<<"product_price", Str(<<Pound>> \o <<" ", "7", ".", "5", " ">>)>>>>,
      <<<<"product_price", Str(<<Pound>> \o <<"1", ".", "0", "0", "5">>)>>>>,
      <<<<"product_price", Str(<<"O", "D", "P", "M", "A", "S", "E", "7", "V", "7">>)>>>>,
      <<<<"product_price", Str(T_NULL)>>>>,
      <<<<"weight", Str(T_5x145g)>>>>,
      <<<<"weight", Str(T_250ml)>>>>,
      <<<<"weight", Str(T_3kg)>>>>,
      <<<<"weight", Str(T_assorted)>>>>,
      <<<<"weight", Str(<<"4", "0">>)>>>>,
      <<<<"weight", Str(<<"1", "4", "0", "0", "0", "0", "g">>)>>>>,
      <<<<"weight", NaN>>>>,
      <<<<"date_added", Str(T_soon)>>>>,
      <<<<"uuid", Str(T_uuid_v1)>>>>,
      <<<<"uuid", Str(upper(T_uuid_v4))>>>>,
      <<<<"uuid", Str(T_not_a_uuid)>>>>,
      <<<<"uuid", Str(UuidText("4", "g"))>>>>,
      <<<<"uuid", Str(T_uuid_v4 \o <<"\n">>)>>>>,
      <<<<"uuid", Str(T_NULL)>>>>,
      <<<<"removed", Str(<<"R", "e", "m", "o", "v", "e", "d">>)>>>>,
      <<<<"category", Str(T_NULL)>>>> }

Scripts == {"dim_users", "main", "dim_card_details", "dim_store_details",
            "dim_products", "orders_table", "dim_date_times"}

\* the tables a script's source can hold
Extracted(s) ==
    CASE s = "dim_users"         -> tables(UserBase, "index", UserVariants)
      [] s = "main"              -> tables(UserBase, "index", UserVariants)
      [] s = "dim_card_details"  -> tables(CardBase, "Unnamed: 0", CardVariants)
      [] s = "dim_store_details" -> tables(StoreBase, "index", StoreVariants)
      [] s = "dim_products"      -> tables(ProductsBase, "Unnamed: 0", ProductsVariants)
      [] s = "orders_table"      -> tables(OrdersBase, "index", OrdersVariants)
      [] s = "dim_date_times"    -> tables(DateTimesBase, "", DateTimesVariants)

Init ==
    /\ pc = "start"
    /\ script \in Scripts
    /\ df_extracted \in Extracted(script)
    /\ df_cleaned = NoOutcome
    /\ df_again = NoOutcome
    /\ WeightIdle /\ UuidIdle /\ CleanIdle /\ IoIdle /\ StoresIdle

\* the cleaning step of a script: df_cleaned = cleaner.clean_...(df_extracted)
Clean(s, cleaner(_)) ==
    /\ pc = "start"
    /\ script = s
    /\ df_cleaned' = cleaner(df_extracted)
    /\ pc' = "cleaned"
    /\ UNCHANGED <<script, df_extracted, df_again, weight_vars, uuid_vars, clean_vars, io_vars, stores_vars>>

\* dim_products.py: convert_product_weights, then clean_products_data
products_cleaned(df) ==
    LET df_converted == convert_product_weights(df)
    IN  IF df_converted.exc # "" THEN df_converted
        ELSE LET cleaned == clean_products_data(df_converted.ret)
             IN  [cleaned EXCEPT !.arg = IF cleaned.exc = "" THEN cleaned.arg
                                         ELSE df_converted.arg]

CleanUserData       == Clean("dim_users", clean_user_data)
LegacyCleanUserData == Clean("main", legacy_clean_user_data)
CleanCardData       == Clean("dim_card_details", clean_card_data)
CleanStoreData      == Clean("dim_store_details", clean_store_data)
CleanProductsData   == Clean("dim_products", products_cleaned)
CleanOrdersData     == Clean("orders_table", clean_orders_data)
CleanDateTimes      == Clean("dim_date_times", clean_date_times)

\* a caller that kept its table calls the same cleaner on it a second time;
\* df_cleaned.arg is that table as the first call left it
Again(s, cleaner(_)) ==
    /\ pc = "cleaned"
    /\ script = s
    /\ df_cleaned.exc = ""
    /\ df_again' = cleaner(df_cleaned.arg)
    /\ pc' = "again"
    /\ UNCHANGED <<script, df_extracted, df_cleaned, weight_vars, uuid_vars, clean_vars, io_vars, stores_vars>>

CleanAgain ==
    \/ Again("dim_users", clean_user_data)
    \/ Again("main", legacy_clean_user_data)
    \/ Again("dim_card_details", clean_card_data)
    \/ Again("dim_store_details", clean_store_data)
    \/ Again("dim_products", products_cleaned)
    \/ Again("orders_table", clean_orders_data)
    \/ Again("dim_date_times", clean_date_times)

Next ==
    \/ CleanUserData
    \/ LegacyCleanUserData
    \/ CleanCardData
    \/ CleanStoreData
    \/ CleanProductsData
    \/ CleanOrdersData
    \/ CleanDateTimes
    \/ CleanAgain

Spec == Init /\ [][Next]_vars

-----------------------------------------------------------------------------
(* Properties of the dataset cleaners *)

Cleaned     == pc = "cleaned" /\ df_cleaned.exc = ""
Output      == df_cleaned.ret
NullCells(f) == {kc \in positions(f) \X f.columns : isna(f.rows[kc[1]][kc[2]])}

\* the given row (by its key cell) has a row in the output
Present(key_cell) == \E k \in positions(Output) : Output.index[k] = key_cell

\* C1 as stated: the output of every cleaner has no null cell.
C1_AsStated == Cleaned => NullCells(Output) = {}

\* C1 amended: the outputs of clean_user_data (both versions), clean_card_data,
\* clean_orders_data and clean_date_times have no null cell; the output of
\* clean_store_data has nulls only in the row of source row 0 (its N/A cells
\* are turned back into nulls), never in country_code, staff_numbers or
\* opening_date; the output of clean_products_data has nulls only in
\* product_name, product_price_pounds and date_added.
C1_Amended ==
    Cleaned =>
       /\ script \in {"dim_users", "main", "dim_card_details", "orders_table",
                      "dim_date_times"}
            => NullCells(Output) = {}
       /\ script = "dim_store_details"
            => \A kc \in NullCells(Output) :
                  /\ Output.index[kc[1]] = df_extracted.rows[1]["index"]
                  /\ kc[2] \notin {"country_code", "staff_numbers", "opening_date"}
       /\ script = "dim_products"
            => \A kc \in NullCells(Output) :
                  kc[2] \in {"product_name", "product_price_pounds", "date_added"}

\* clean_store_data has returned the online store's row with its nulls, next
\* to a row without any
C1_Witness ==
    /\ Cleaned /\ script = "dim_store_details"
    /\ Len(Output.rows) = 2
    /\ NullCells(Output) # {}

\* the text is the canonical form of a version-4 UUID
CanonicalV4(c) ==
    /\ c.t = "str"
    /\ Len(c.s) = 36
    /\ \A i \in 1..36 :
          IF i \in {9, 14, 19, 24} THEN c.s[i] = "-"
          ELSE c.s[i] \in {HexSeq[j] : j \in 1..16}
    /\ c.s[15] = "4"
    /\ c.s[20] \in {"8", "9", "a", "b"}

\* C7: every output row of clean_user_data and of clean_orders_data has a
\* user_uuid that is a canonical version-4 UUID, and every input row whose
\* user_uuid is not one is absent from the output.
C7_ValidUuidOnly ==
    (Cleaned /\ script \in {"dim_users", "main", "orders_table"}) =>
       /\ \A k \in positions(Output) : CanonicalV4(Output.rows[k]["user_uuid"])
       /\ \A j \in positions(df_extracted) :
             ~CanonicalV4(df_extracted.rows[j]["user_uuid"])
                => ~Present(df_extracted.rows[j]["index"])

\* the country code phone validation goes by: GB for the United Kingdom
PhoneCountry(row) ==
    IF row["country"] = Str(T_United_Kingdom) THEN Str(T_GB) ELSE row["country_code"]
PhoneMatches(row) ==
    LET number == astype_str(row["phone_number"]).s
    IN  CASE PhoneCountry(row) = Str(T_GB) -> match_uk(number)
          [] PhoneCountry(row) = Str(T_DE) -> match_de(number)
          [] PhoneCountry(row) = Str(T_US) -> match_us(number)
          [] OTHER -> TRUE

UsRowGoodPhone == overridden([UserBase EXCEPT !["index"] = Str(<<"0">>)],
                     <<<<"country", Str(T_United_States)>>, <<"country_code", Str(T_US)>>,
                       <<"phone_number", Str(T_phone_us)>>>>)

\* C9: in clean_user_data a row whose country code is GB, DE or US and whose
\* phone_number does not match the country's pattern is absent from the
\* output; the row with "(123) 456-7890" and country_code "US" is retained.
C9_BadPhoneDropped ==
    (Cleaned /\ script \in {"dim_users", "main"}) =>
       /\ \A j \in positions(df_extracted) :
             ~PhoneMatches(df_extracted.rows[j]) => ~Present(df_extracted.rows[j]["index"])
       /\ (df_extracted.rows # <<>> /\ df_extracted.rows[1] = UsRowGoodPhone)
             => Present(Str(<<"0">>))

StoreCodes == {Str(T_DE), Str(T_US), Str(T_GB)}

CsvNull(c) == isna(c) \/ (c.t = "str" /\ c.s \in csv_na_values)

\* every cell of the row that is not null is one the store cleaner accepts
NonNullCellsValid(row) ==
    /\ CsvNull(row["country_code"]) \/ row["country_code"] \in StoreCodes
    /\ CsvNull(row["staff_numbers"]) \/ ~isna(extract_staff_number(row["staff_numbers"]))
    /\ CsvNull(row["opening_date"]) \/ ~isna(to_datetime_date(row["opening_date"]))

\* C11: in clean_store_data row 0 of the source, the online store, is exempt
\* from null-stripping: whichever of its cells are null, it is not removed by
\* a null-drop and is present in the output.
C11_Row0Kept ==
    (/\ Cleaned /\ script = "dim_store_details"
     /\ df_extracted.rows # <<>>
     /\ NonNullCellsValid(df_extracted.rows[1]))
       => Present(df_extracted.rows[1]["index"])

\* the text is a month 01..12, a slash and two digits of a year
ParsesMMYY(c) ==
    /\ c.t = "str"
    /\ Len(c.s) = 5
    /\ c.s[3] = "/"
    /\ \A i \in {1, 2, 4, 5} : c.s[i] \in Digits
    /\ int_of_digits(SubSeq(c.s, 1, 2)) \in 1..12

\* C12: in clean_card_data every output row has an expiry_date that parses
\* under MM/YY, and a row whose expiry_date does not parse is absent from the
\* output.
C12_ExpiryParses ==
    (Cleaned /\ script = "dim_card_details") =>
       /\ \A k \in positions(Output) : ParsesMMYY(Output.rows[k]["expiry_date"])
       /\ \A j \in positions(df_extracted) :
             ~ParsesMMYY(df_extracted.rows[j]["expiry_date"])
                => ~Present(df_extracted.rows[j]["Unnamed: 0"])

\* C19: every output row of clean_user_data (src/src/data_cleaning.py) has a
\* country_code of exactly 2 characters, which is "GB" whenever its country is
\* "United Kingdom"; a row whose country_code, once corrected for the United
\* Kingdom, has any other length is absent from the output.
C19_TwoLetterCode ==
    (Cleaned /\ script = "dim_users") =>
       /\ \A k \in positions(Output) :
             /\ Output.rows[k]["country_code"].t = "str"
             /\ Len(Output.rows[k]["country_code"].s) = 2
             /\ Output.rows[k]["country"] = Str(T_United_Kingdom)
                   => Output.rows[k]["country_code"] = Str(T_GB)
       /\ \A j \in positions(df_extracted) :
             (PhoneCountry(df_extracted.rows[j]).t # "str"
                \/ Len(PhoneCountry(df_extracted.rows[j]).s) # 2)
                => ~Present(df_extracted.rows[j]["index"])

\* a United Kingdom row with raw code "GGB" is in the output, and a German
\* row with code "DEU" went in and is not
C19_Witness ==
    /\ Cleaned /\ script = "dim_users"
    /\ \E j \in positions(df_extracted) :
          /\ df_extracted.rows[j]["country_code"] = Str(T_GGB)
          /\ Present(df_extracted.rows[j]["index"])
    /\ \E j \in positions(df_extracted) :
          /\ df_extracted.rows[j]["country_code"] = Str(T_DEU)
          /\ ~Present(df_extracted.rows[j]["index"])

\* the row is the dataset's valid row in every cell but its key, country,
\* country_code and phone_number
ValidBesidesCountryAndPhone(row) ==
    [row EXCEPT !["index"] = UserBase["index"],
                !["country"] = UserBase["country"],
                !["country_code"] = UserBase["country_code"],
                !["phone_number"] = UserBase["phone_number"]] = UserBase

\* C20: in clean_user_data (src/src/data_cleaning.py) the country code is
\* corrected before the phone numbers are validated: a row whose country is
\* "United Kingdom" is validated against the UK pattern whatever its raw
\* country_code was (it is kept only if its phone matches the UK pattern),
\* and never against the DE or US pattern (it is kept if its phone matches
\* the UK pattern and the row is valid otherwise).
C20_CorrectionBeforePhone ==
    (Cleaned /\ script = "dim_users") =>
       \A j \in positions(df_extracted) :
          LET row == df_extracted.rows[j]
          IN  row["country"] = Str(T_United_Kingdom) =>
                 /\ Present(row["index"]) => match_uk(astype_str(row["phone_number"]).s)
                 /\ (ValidBesidesCountryAndPhone(row)
                       /\ match_uk(astype_str(row["phone_number"]).s))
                       => Present(row["index"])

\* a United Kingdom row with raw code "US" and a UK phone number that the US
\* pattern rejects is in the output
C20_Witness ==
    /\ Cleaned /\ script = "dim_users"
    /\ \E j \in positions(df_extracted) :
          /\ df_extracted.rows[j]["country"] = Str(T_United_Kingdom)
          /\ df_extracted.rows[j]["country_code"] = Str(T_US)
          /\ df_extracted.rows[j]["phone_number"] = Str(T_phone_uk)
          /\ ~match_us(T_phone_uk)
          /\ Present(df_extracted.rows[j]["index"])

\* C14: no cleaning step raises on a single bad cell value: for every table
\* with the dataset's columns and at least one row, whatever its cells hold,
\* the cleaner returns normally.
C14_NeverRaises ==
    (pc = "cleaned" /\ df_extracted.rows # <<>>) => df_cleaned.exc = ""

\* C13: a cleaner call has no residual effect: the caller's table has the same
\* rows, columns and cells after the call as before it, and a second call of
\* the same cleaner on the same table returns what the first call returned
\* (clean_user_data, convert_product_weights with clean_products_data,
\* clean_orders_data, clean_date_times).
C13_NoResidualEffect ==
    script \in {"dim_users", "dim_products", "orders_table", "dim_date_times"} =>
       /\ Cleaned => df_cleaned.arg = df_extracted
       /\ pc = "again" => (df_again.exc = "" /\ df_again.ret = df_cleaned.ret)

\* the products table after the row-cleaning of clean_products_data
\* (_clean_dataframe, line 229), as dim_products.py calls it
RowCleaned == _clean_dataframe(convert_product_weights(df_extracted).ret, "Unnamed: 0")

\* the cell is a text of 8-4-4-4-12 hexadecimal digits of either letter case,
\* as re.match takes the pattern (a newline ending the text is let through)
UuidShape(c) ==
    /\ c.t = "str"
    /\ LET n    == Len(c.s)
           text == IF n = 37 /\ c.s[n] = "\n" THEN SubSeq(c.s, 1, 36) ELSE c.s
       IN  /\ Len(text) = 36
           /\ \A i \in {9, 14, 19, 24} : text[i] = "-"
           /\ \A i \in (1..36) \ {9, 14, 19, 24} :
                 \E j \in 1..16 : text[i] \in {HexSeq[j], UpperSeq[j]}

\* C21: clean_products_data filters uuid by shape only: a row that survives
\* the row-cleaning is in the output exactly when its uuid has the 8-4-4-4-12
\* hexadecimal shape in either letter case, whatever is_valid_uuid says of it,
\* and it is there with the uuid it came with.
C21_ShapeOnly ==
    (Cleaned /\ script = "dim_products") =>
       \A k \in positions(RowCleaned) :
          /\ Present(RowCleaned.index[k]) <=> UuidShape(RowCleaned.rows[k]["uuid"])
          /\ \A o \in positions(Output) :
                Output.index[o] = RowCleaned.index[k]
                   => Output.rows[o]["uuid"] = RowCleaned.rows[k]["uuid"]

\* the output has a product whose uuid is_valid_uuid rejects for its upper-case
\* digits and one it rejects for its version digit
C21_Witness ==
    /\ Cleaned /\ script = "dim_products"
    /\ \E a, b \in positions(Output) :
          /\ Output.rows[a]["uuid"] = Str(upper(T_uuid_v4))
          /\ Output.rows[b]["uuid"] = Str(T_uuid_v1)
          /\ is_valid_uuid(Output.rows[a]["uuid"]) = Bool(FALSE)
          /\ is_valid_uuid(Output.rows[b]["uuid"]) = Bool(FALSE)

\* the column a script's cleaner makes the index (none for date_times), and a
\* column it hands on as it received it
KeyColumn(s) ==
    CASE s \in {"dim_users", "main", "dim_store_details", "orders_table"} -> "index"
      [] s \in {"dim_card_details", "dim_products"} -> "Unnamed: 0"
      [] s = "dim_date_times" -> ""
CarriedColumn(s) ==
    CASE s \in {"dim_users", "main"} -> "first_name"
      [] s = "dim_card_details"      -> "card_provider"
      [] s = "dim_store_details"     -> "store_code"
      [] s = "dim_products"          -> "product_code"
      [] s = "orders_table"          -> "store_code"
      [] s = "dim_date_times"        -> "date_uuid"

\* the key of the input row at a position
InputKey(j) ==
    IF KeyColumn(script) = "" THEN df_extracted.index[j]
    ELSE df_extracted.rows[j][KeyColumn(script)]

\* C23: every dataset cleaner only removes rows: the output rows can be
\* matched, in order, to distinct input rows of the same key, so each output
\* row derives from one input row, no row is added or duplicated and the
\* surviving rows keep their relative input order; the output has no more
\* rows than the input.
C23_OnlyRemovesRows ==
    Cleaned =>
       /\ Len(Output.rows) <= Len(df_extracted.rows)
       /\ \E f \in [positions(Output) -> positions(df_extracted)] :
             /\ \A a, b \in positions(Output) : a < b => f[a] < f[b]
             /\ \A o \in positions(Output) :
                   /\ Output.index[o] = InputKey(f[o])
                   /\ \/ isna(Output.rows[o][CarriedColumn(script)])
                      \/ Output.rows[o][CarriedColumn(script)]
                            = df_extracted.rows[f[o]][CarriedColumn(script)]

\* clean_orders_data was given as many rows as a table holds, removed one that
\* is not the last, and returned the others in the order they came in
C23_Witness ==
    /\ Cleaned /\ script = "orders_table"
    /\ Len(df_extracted.rows) = MaxRows
    /\ Len(Output.rows) = MaxRows - 1
    /\ Output.index[MaxRows - 1] = InputKey(MaxRows)
    /\ \A o \in 1..(MaxRows - 2) : \E j \in 1..(MaxRows - 1) : Output.index[o] = InputKey(j)

-----------------------------------------------------------------------------
(* _clean_dataframe called on a table, and again on what it left *)

IndexArgs == {"", "index", "Unnamed: 0"}

InitRowClean ==
    /\ pc = "start"
    /\ script \in {"dim_users", "dim_date_times"}
    /\ df_extracted \in Extracted(script)
    /\ df_cleaned = NoOutcome
    /\ df_again = NoOutcome
    /\ index_arg \in IndexArgs
    /\ once = NoFrame
    /\ twice = NoFrame
    /\ WeightIdle /\ UuidIdle /\ IoIdle /\ StoresIdle

CleanOnce ==
    /\ pc = "start"
    /\ once' = _clean_dataframe(df_extracted, index_arg)
    /\ pc' = "once"
    /\ UNCHANGED <<weight_vars, uuid_vars, frame_vars, index_arg, twice, io_vars, stores_vars>>

CleanTwice ==
    /\ pc = "once"
    /\ twice' = _clean_dataframe(once, index_arg)
    /\ pc' = "twice"
    /\ UNCHANGED <<weight_vars, uuid_vars, frame_vars, index_arg, once, io_vars, stores_vars>>

NextRowClean == CleanOnce \/ CleanTwice

SpecRowClean == InitRowClean /\ [][NextRowClean]_vars

\* C2 as stated: for every table and key, the second call changes nothing.
C2_AsStated == pc = "twice" => twice = once

\* C2 amended: the second call changes nothing when no key column is named or
\* the named key is not a column of the table; with a key column present (the
\* first call has made it the row labels) the second call removes exactly the
\* rows that equal an earlier row in every remaining column.
C2_Amended ==
    pc = "twice" =>
       /\ (index_arg = "" \/ index_arg \notin df_extracted.columns) => twice = once
       /\ twice = take(once, {k \in positions(once) :
                                 \A j \in 1..(k - 1) : once.rows[j] # once.rows[k]})

\* without a key, a table that lost a row to the first call went through both
C2_Witness ==
    /\ pc = "twice"
    /\ index_arg = ""
    /\ Len(once.rows) = 1
    /\ Len(df_extracted.rows) = 2
    /\ twice = once

-----------------------------------------------------------------------------
(* DataExtractor.read_rds_table and DatabaseConnector.upload_to_db, in the  *)
(* modules of src/ and of src/src/.  The source database is taken to answer *)
(* the listing and the query; the destination database may fail at any step *)
(* of an upload.                                                            *)

Range(f) == {f[i] : i \in DOMAIN f}

\* the objects a caller can pass as db_connector: an instance of the
\* DatabaseConnector the module imports, an object of another class with the
\* same methods (such as the DatabaseConnector of the other database_utils
\* module), and an object without them
Connectors == {"DatabaseConnector", "look-alike", "object"}

TableNames == {"legacy_users", "orders_table", "dim_users"}

\* what a call of the extractor left: the exception raised ("" for none),
\* the uses it made of the connector and the database, the table returned
Extraction(exc, uses, ret) == [exc |-> exc, used |-> uses, ret |-> ret]

table_found_always(name, listed) == TRUE
\* table_name in available_tables
table_found(name, listed) == name \in listed

\* init_db_engine, list_db_tables, the check of the name, pd.read_sql
read_listed_table(name, listed, source) ==
    IF ~table_found(name, listed)
    THEN Extraction("ValueError", <<"init_db_engine", "list_db_tables">>, NoFrame)
    ELSE Extraction("", <<"init_db_engine", "list_db_tables", "read_sql">>, source)

\* DataExtractor.read_rds_table of src/src/data_extraction.py: no check of
\* the connector; an object without init_db_engine fails at the first call
read_rds_table(connector, name, listed, source) ==
    IF connector = "object" THEN Extraction("AttributeError", <<>>, NoFrame)
    ELSE read_listed_table(name, listed, source)

\* DataExtractor.read_rds_table of src/data_extraction.py
legacy_read_rds_table(connector, name, listed, source) ==
    IF connector # "DatabaseConnector" THEN Extraction("TypeError", <<>>, NoFrame)
    ELSE read_listed_table(name, listed, source)

\* isinstance(df, pd.DataFrame)
is_DataFrame(x) == "rows" \in DOMAIN x

\* the step of an upload at which the destination database fails
DbFailures == {"", "connect", "to_sql", "add_primary_key", "commit"}

SQLAlchemyErrors == {"OperationalError", "ProgrammingError"}

\* the exception sqlalchemy raises for a failure at the step
db_error(failure) ==
    IF failure = "add_primary_key" THEN "ProgrammingError" ELSE "OperationalError"

upload_except_nothing(exc) == FALSE
\* except SQLAlchemyError as e
upload_except(exc) == exc \in SQLAlchemyErrors

MsgUploaded    == "Data uploaded successfully to table"
MsgKeySet      == "Primary key set for table"
MsgUploadError == "An error occurred while uploading data to the database:"

\* what a call of the loader left: the exception raised, the uses it made of
\* the connector and the database, the rows of the destination table, the
\* lines printed
Loaded(exc, uses, dest, out) == [exc |-> exc, used |-> uses, dest |-> dest, out |-> out]

\* the try block left by a database failure: the except clause prints it
upload_failed(failure, uses, prior, out) ==
    IF upload_except(db_error(failure))
    THEN Loaded("", uses, prior, Append(out, MsgUploadError))
    ELSE Loaded(db_error(failure), uses, prior, out)

\* a connection that commits each statement as it is executed
engine_begin_autocommit(written, prior) == written
\* with engine.begin() as conn (line 104), left by an exception after to_sql
\* has written the table: the transaction is rolled back
engine_begin(written, prior) == prior

\* DatabaseConnector.upload_to_db of src/src/database_utils.py: to_sql and the
\* ALTER TABLE run in the transaction of engine.begin(), committed when the
\* block is left normally and rolled back when it is left by an exception;
\* to_sql(index=False) writes the columns of the table, not its index
upload_to_db(df, key, failure, prior) ==
    IF ~is_DataFrame(df) THEN Loaded("ValueError", <<>>, prior, <<>>)
    ELSE IF failure = "connect"
    THEN upload_failed(failure, <<"init_db_engine", "begin">>, prior, <<>>)
    ELSE IF failure = "to_sql"
    THEN upload_failed(failure, <<"init_db_engine", "begin", "to_sql", "rollback">>,
                       prior, <<>>)
    ELSE IF failure = "add_primary_key" /\ key # ""
    THEN upload_failed(failure, <<"init_db_engine", "begin", "to_sql",
                                  "add_primary_key", "rollback">>,
                       engine_begin(df.rows, prior), <<MsgUploaded>>)
    ELSE IF failure = "commit"
    THEN upload_failed(failure,
                       <<"init_db_engine", "begin", "to_sql">>
                           \o (IF key # "" THEN <<"add_primary_key">> ELSE <<>>)
                           \o <<"commit">>,
                       engine_begin(df.rows, prior),
                       <<MsgUploaded>> \o (IF key # "" THEN <<MsgKeySet>> ELSE <<>>))
    ELSE Loaded("",
                <<"init_db_engine", "begin", "to_sql">>
                    \o (IF key # "" THEN <<"add_primary_key">> ELSE <<>>)
                    \o <<"commit">>,
                df.rows,
                <<MsgUploaded>> \o (IF key # "" THEN <<MsgKeySet>> ELSE <<>>))

\* DatabaseConnector.upload_to_db of src/database_utils.py: to_sql on the engine
legacy_upload_to_db(df, failure, prior) ==
    IF ~is_DataFrame(df) THEN Loaded("ValueError", <<>>, prior, <<>>)
    ELSE IF failure \in {"connect", "to_sql", "commit"}
    THEN upload_failed(failure, <<"init_db_engine", "to_sql">>, prior, <<>>)
    ELSE Loaded("", <<"init_db_engine", "to_sql">>, df.rows, <<MsgUploaded>>)

\* the rows the destination table can hold before an upload
PriorContents == {<<>>, <<[stale |-> Str(<<"r", "o", "w">>)]>>}

\* the objects a caller of upload_to_db can pass as df: tables, None, a path
UploadArgs ==
    tables(DateTimesBase, "", {<<>>, <<<<"day", Str(<<"7">>)>>>>})
        \cup {PyNone, Str(<<"a", ".", "c", "s", "v">>)}

\* the tables the source database can hold
SourceTables == tables(UserBase, "index", {<<>>})

InitCalls ==
    /\ pc = "start"
    /\ destination \in PriorContents
    /\ package = "" /\ db_connector = "" /\ table_name = "" /\ available_tables = {}
    /\ df_uploaded = NoFrame /\ primary_key = "" /\ db_failure = ""
    /\ used = <<>> /\ exception = "" /\ stdout = <<>>
    /\ WeightIdle /\ UuidIdle /\ FrameIdle /\ CleanIdle /\ StoresIdle

\* a call of read_rds_table with the outcome r
Read(p, connector, name, listed, r) ==
    /\ pc = "start"
    /\ package' = p
    /\ db_connector' = connector
    /\ table_name' = name
    /\ available_tables' = listed
    /\ used' = r.used
    /\ exception' = r.exc
    /\ df_extracted' = r.ret
    /\ pc' = "read"
    /\ UNCHANGED <<script, df_cleaned, df_again, df_uploaded, primary_key, db_failure,
                   destination, stdout, weight_vars, uuid_vars, clean_vars, stores_vars>>

ReadRdsTable ==
    \E connector \in Connectors, name \in TableNames,
       listed \in SUBSET TableNames, source \in SourceTables :
        Read("src/src", connector, name, listed,
             read_rds_table(connector, name, listed, source))

LegacyReadRdsTable ==
    \E connector \in Connectors, name \in TableNames,
       listed \in SUBSET TableNames, source \in SourceTables :
        Read("src", connector, name, listed,
             legacy_read_rds_table(connector, name, listed, source))

\* a call of upload_to_db with the outcome u
Upload(p, df, name, key, failure, u) ==
    /\ pc = "start"
    /\ package' = p
    /\ df_uploaded' = df
    /\ table_name' = name
    /\ primary_key' = key
    /\ db_failure' = failure
    /\ used' = u.used
    /\ exception' = u.exc
    /\ destination' = u.dest
    /\ stdout' = u.out
    /\ pc' = "uploaded"
    /\ UNCHANGED <<db_connector, available_tables, frame_vars, weight_vars, uuid_vars,
                   clean_vars, stores_vars>>

UploadToDb ==
    \E df \in UploadArgs, name \in TableNames, key \in {"", "date_uuid"},
       failure \in DbFailures :
        Upload("src/src", df, name, key, failure,
               upload_to_db(df, key, failure, destination))

LegacyUploadToDb ==
    \E df \in UploadArgs, name \in TableNames, failure \in DbFailures :
        Upload("src", df, name, "", failure,
               legacy_upload_to_db(df, failure, destination))

NextCalls ==
    \/ ReadRdsTable
    \/ LegacyReadRdsTable
    \/ UploadToDb
    \/ LegacyUploadToDb

SpecCalls == InitCalls /\ [][NextCalls]_vars

\* C16: read_rds_table raises TypeError when db_connector is not an instance
\* of DatabaseConnector, before the collaborator is used: no engine
\* initialised, no table listing, no query.
C16_TypeErrorFirst ==
    (pc = "read" /\ db_connector # "DatabaseConnector")
       => (exception = "TypeError" /\ used = <<>>)

\* the database failed at a step that the call reaches
FailureMet ==
    /\ db_failure # ""
    /\ db_failure = "add_primary_key" => primary_key # ""

C22_OneTransaction ==
    [][(pc = "start" /\ pc' = "uploaded" /\ package' = "src/src"
            /\ is_DataFrame(df_uploaded')) =>
          /\ (db_failure' = "add_primary_key" /\ primary_key' # "")
                => /\ destination' = destination
                   /\ "add_primary_key" \in Range(used')
                   /\ "commit" \notin Range(used')
          /\ FailureMet' => destination' = destination
          /\ ~FailureMet'
                => /\ destination' = df_uploaded'.rows
                   /\ used'[Len(used')] = "commit"
                   /\ \A i \in 1..Len(destination) :
                         destination[i] \notin Range(destination')]_vars

\* the declaration of the primary key failed after to_sql had written a table
\* with rows, and the destination table has the row it had before
C22_Witness ==
    /\ pc = "uploaded"
    /\ package = "src/src"
    /\ is_DataFrame(df_uploaded) /\ df_uploaded.rows # <<>>
    /\ db_failure = "add_primary_key" /\ primary_key # ""
    /\ used = <<"init_db_engine", "begin", "to_sql", "add_primary_key", "rollback">>
    /\ stdout = <<MsgUploaded, MsgUploadError>>
    /\ destination \in PriorContents \ {<<>>}

-----------------------------------------------------------------------------
(* The scripts that read their table from the source database: src/main.py  *)
(* with the modules of src/, src/src/tables/dim_users.py and                *)
(* src/src/orders_table.py with the modules of src/src/.  An exception that *)
(* leaves a call is not caught by the script and ends the run.              *)

RunScripts == {"main", "dim_users", "orders_table"}

\* the table a script reads, the table it uploads to, the key it declares
SourceName(s)      == IF s = "orders_table" THEN "orders_table" ELSE "legacy_users"
DestinationName(s) == IF s = "orders_table" THEN "orders_table" ELSE "dim_users"
PrimaryKey(s) ==
    CASE s = "main"         -> ""
      [] s = "dim_users"    -> "user_uuid"
      [] s = "orders_table" -> "order_id"

\* the tables the source database can hold for a script
RunTables(s) ==
    IF s = "orders_table"
    THEN tables(OrdersBase, "index", {<<>>, <<<<"user_uuid", Float(5, 0)>>>>})
    ELSE tables(UserBase, "index", {<<>>, <<<<"phone_number", Str(T_12345)>>>>})

MsgAltered    == "Data types altered successfully for table"
MsgAlterError == "An error occurred while altering data types in table"
MsgCompleted  == "Data extraction, cleaning, and uploading process completed."

InitRun ==
    /\ pc = "start"
    /\ script \in RunScripts
    /\ package = (IF script = "main" THEN "src" ELSE "src/src")
    /\ available_tables \in SUBSET {"legacy_users", "orders_table"}
    /\ destination \in PriorContents
    /\ df_extracted = NoFrame /\ df_cleaned = NoOutcome /\ df_again = NoOutcome
    /\ db_connector = "" /\ table_name = ""
    /\ df_uploaded = NoFrame /\ primary_key = "" /\ db_failure = ""
    /\ used = <<>> /\ exception = "" /\ stdout = <<>>
    /\ WeightIdle /\ UuidIdle /\ CleanIdle /\ StoresIdle

\* df_extracted = extractor.read_rds_table(db_connector, <table>)
Extract ==
    /\ pc = "start"
    /\ \E source \in RunTables(script) :
          LET r == IF package = "src"
                   THEN legacy_read_rds_table("DatabaseConnector", SourceName(script),
                                              available_tables, source)
                   ELSE read_rds_table("DatabaseConnector", SourceName(script),
                                       available_tables, source)
          IN  /\ db_connector' = "DatabaseConnector"
              /\ table_name' = SourceName(script)
              /\ used' = r.used
              /\ exception' = r.exc
              /\ df_extracted' = r.ret
              /\ pc' = IF r.exc = "" THEN "extracted" ELSE "aborted"
    /\ UNCHANGED <<script, df_cleaned, df_again, package, available_tables, df_uploaded,
                   primary_key, db_failure, destination, stdout,
                   weight_vars, uuid_vars, clean_vars, stores_vars>>

\* df_cleaned = cleaner.clean_...(df_extracted); an exception ends the script
RunClean(s, cleaner(_)) ==
    /\ pc = "extracted"
    /\ script = s
    /\ LET outcome == cleaner(df_extracted)
       IN  /\ df_cleaned' = outcome
           /\ exception' = outcome.exc
           /\ pc' = IF outcome.exc = "" THEN "cleaned" ELSE "aborted"
    /\ UNCHANGED <<script, df_extracted, df_again, package, db_connector, table_name,
                   available_tables, df_uploaded, primary_key, db_failure, used,
                   destination, stdout, weight_vars, uuid_vars, clean_vars, stores_vars>>

RunCleaner ==
    \/ RunClean("main", legacy_clean_user_data)
    \/ RunClean("dim_users", clean_user_data)
    \/ RunClean("orders_table", clean_orders_data)

\* db_connector.upload_to_db(df_cleaned, <table>[, primary_key])
RunUpload ==
    /\ pc = "cleaned"
    /\ \E failure \in DbFailures :
          LET u == IF package = "src"
                   THEN legacy_upload_to_db(df_cleaned.ret, failure, destination)
                   ELSE upload_to_db(df_cleaned.ret, PrimaryKey(script), failure,
                                     destination)
          IN  /\ df_uploaded' = df_cleaned.ret
              /\ table_name' = DestinationName(script)
              /\ primary_key' = PrimaryKey(script)
              /\ db_failure' = failure
              /\ used' = used \o u.used
              /\ exception' = u.exc
              /\ destination' = u.dest
              /\ stdout' = stdout \o u.out
              /\ pc' = IF u.exc = "" THEN "uploaded" ELSE "aborted"
    /\ UNCHANGED <<script, df_extracted, df_cleaned, df_again, package, db_connector,
                   available_tables, weight_vars, uuid_vars, clean_vars, stores_vars>>

\* DatabaseConnector.alter_column_data_types, called by the scripts of
\* src/src: a database failure is printed, not raised
AlterColumnDataTypes ==
    /\ pc = "uploaded"
    /\ package = "src/src"
    /\ \E failed \in BOOLEAN :
          /\ used' = used \o <<"init_db_engine", "connect", "alter_column">>
          /\ stdout' = Append(stdout, IF failed THEN MsgAlterError ELSE MsgAltered)
    /\ pc' = "altered"
    /\ UNCHANGED <<frame_vars, package, db_connector, table_name, available_tables,
                   df_uploaded, primary_key, db_failure, exception, destination,
                   weight_vars, uuid_vars, clean_vars, stores_vars>>

\* the print that ends the script
Complete ==
    /\ \/ pc = "altered"
       \/ pc = "uploaded" /\ package = "src"
    /\ stdout' = Append(stdout, MsgCompleted)
    /\ pc' = "done"
    /\ UNCHANGED <<frame_vars, package, db_connector, table_name, available_tables,
                   df_uploaded, primary_key, db_failure, used, exception, destination,
                   weight_vars, uuid_vars, clean_vars, stores_vars>>

NextRun ==
    \/ Extract
    \/ RunCleaner
    \/ RunUpload
    \/ AlterColumnDataTypes
    \/ Complete

SpecRun == InitRun /\ [][NextRun]_vars

\* C15: read_rds_table called with a table name that is not in the database's
\* table list raises the not-found error (ValueError) before any SELECT is
\* issued, and in the script this ends the run: no step follows, so nothing
\* is cleaned or uploaded, the destination table is as it was and the
\* completion message is never printed.
C15_UnknownTableAborts ==
    [][/\ (pc = "start" /\ SourceName(script) \notin available_tables)
             => /\ exception' = "ValueError"
                /\ "read_sql" \notin Range(used')
                /\ pc' = "aborted"
                /\ UNCHANGED <<df_cleaned, df_uploaded, destination, stdout>>
       /\ pc # "aborted"]_vars

\* src/main.py has ended on the ValueError for legacy_users, with the
\* destination table still holding its rows and nothing printed
C15_Witness ==
    /\ pc = "aborted"
    /\ script = "main"
    /\ exception = "ValueError"
    /\ "legacy_users" \notin available_tables
    /\ used = <<"init_db_engine", "list_db_tables">>
    /\ destination \in PriorContents \ {<<>>}
    /\ stdout = <<>>

-----------------------------------------------------------------------------
(* DataExtractor.retrieve_stores_data: one step per pass of its loop *)

MaxStores == 4

\* what the request for one store can come to: a response with status 200, a
\* response whose raise_for_status raises requests.HTTPError, and
\* requests.get raising requests.ConnectionError
Responses == {"ok", "HTTPError", "ConnectionError"}

\* except requests.HTTPError as e
stores_except(exc) == exc = "HTTPError"

\* response.json() for the store
store_json(k) == [index |-> k]

InitStores ==
    /\ pc = "fetching"
    /\ number_of_stores \in 0..MaxStores
    /\ store_number = 0
    /\ all_stores = <<>>
    /\ requested = <<>>
    /\ logged = <<>>
    /\ WeightIdle /\ UuidIdle /\ FrameIdle /\ CleanIdle /\ IoIdle

\* one pass of the loop body, lines 103-109
FetchStore ==
    /\ pc = "fetching"
    /\ store_number < number_of_stores
    /\ requested' = Append(requested, store_number)
    /\ \E response \in Responses :
          IF response = "ok"
          THEN /\ all_stores' = Append(all_stores, store_json(store_number))
               /\ store_number' = store_number + 1
               /\ UNCHANGED <<logged, exception, pc>>
          ELSE IF stores_except(response)
          THEN /\ logged' = Append(logged, store_number)
               /\ store_number' = store_number + 1
               /\ UNCHANGED <<all_stores, exception, pc>>
          ELSE /\ exception' = response
               /\ pc' = "raised"
               /\ UNCHANGED <<all_stores, logged, store_number>>
    /\ UNCHANGED <<number_of_stores, package, db_connector, table_name, available_tables,
                   df_uploaded, primary_key, db_failure, used, destination, stdout,
                   weight_vars, uuid_vars, frame_vars, clean_vars>>

\* return pd.DataFrame(all_stores)
ReturnStores ==
    /\ pc = "fetching"
    /\ store_number = number_of_stores
    /\ pc' = "returned"
    /\ UNCHANGED <<weight_vars, uuid_vars, frame_vars, clean_vars, io_vars, stores_vars>>

NextStores == FetchStore \/ ReturnStores

SpecStores == InitStores /\ [][NextStores]_vars

\* C17: retrieve_stores_data(n) attempts the fetch for every store number
\* 0..n-1 exactly once, in ascending order; a failed fetch is logged and
\* skipped, never propagates to the caller and never prevents the later
\* attempts; the returned table holds exactly the successful responses in
\* store-number order.
C17_EveryStoreAttempted ==
    /\ exception = ""
    /\ requested = [k \in 1..store_number |-> k - 1]
    /\ pc = "returned" =>
          /\ store_number = number_of_stores
          /\ {all_stores[i].index : i \in 1..Len(all_stores)} \cup Range(logged)
                = 0..(number_of_stores - 1)
          /\ {all_stores[i].index : i \in 1..Len(all_stores)} \cap Range(logged) = {}
          /\ \A i, j \in 1..Len(all_stores) :
                i < j => all_stores[i].index < all_stores[j].index

====
